---- MODULE Spec2Model ----
(***************************************************************************)
(* Model of the float16 package: 16-bit IEEE 754 half-precision values,    *)
(* their widening to float32, the narrowing conversions from float32 and   *)
(* float64, and the arithmetic operators with their modes.                 *)
(*                                                                         *)
(* A Float16 is its 16-bit pattern, a natural in 0..65535.  A float32 is   *)
(* the record of its three fields [s, e, m] (1, 8 and 23 bits); a float64  *)
(* is [s, e, hi, lo] where hi and lo are the upper and lower 26 bits of    *)
(* the 52-bit mantissa, so that every number stays below 2^31.             *)
(***************************************************************************)
EXTENDS Integers, Sequences, FiniteSets, TLC

\* ------------------------------------------------------------------------
\* Bounds of the input sets
\* ------------------------------------------------------------------------
\* mantissa samples lie within MantSpread of the landmarks 0, 0x200, 0x3FF
MantSpread == 1
\* exponent samples lie within ExpSpread of the landmarks of the format
ExpSpread == 0
\* longest input slice of a batch conversion
MaxBatch == 3
\* number of Config objects the caller holds
NumConfigs == 2
\* number of goroutines calling into the package
NumProcs == 2

\* ------------------------------------------------------------------------
\* Bit helpers (Go's uint16/uint32 operators on naturals)
\* ------------------------------------------------------------------------
Pow2(n) == 2^n

\* x >> n on an unsigned value; Go yields 0 once n reaches the width
Shr(x, n) == IF n >= 31 THEN 0 ELSE x \div Pow2(n)

\* x & ((1 << n) - 1) for x < 2^30 (a 32-bit mask computed in uint32:
\* for n >= 32 the mask is 0xFFFFFFFF, which also keeps all of x)
LowBits(x, n) == IF n >= 30 THEN x ELSE x % Pow2(n)

\* (x >> n) & 1
Bit(x, n) == Shr(x, n) % 2

RECURSIVE Len32(_)
\* bits.Len32: number of bits needed to represent x, 0 for x = 0
Len32(x) == IF x = 0 THEN 0 ELSE 1 + Len32(x \div 2)

\* bits.LeadingZeros16
LeadingZeros16(x) == 16 - Len32(x)

\* conversion of an int to uint16
U16(n) == n % 65536

\* ------------------------------------------------------------------------
\* types.go: constants
\* ------------------------------------------------------------------------
SignMask == 32768
ExponentMask == 31744
MantissaMask == 1023
MantissaLen == 10
ExponentBias == 15
Float32ExponentBias == 127
Float32MantissaLen == 23
ExponentZero == 0
ExponentInfinity == 31

PositiveZero == 0
NegativeZero == 32768
PositiveInfinity == 31744
NegativeInfinity == 64512
QuietNaN == 32256
NegativeQNaN == 65024

ConversionModes == {"ModeIEEE", "ModeStrict", "ModeFast", "ModeExact"}
RoundingModes == {"RoundNearestEven", "RoundNearestAway", "RoundTowardZero",
                  "RoundTowardPositive", "RoundTowardNegative"}
ArithmeticModes == {"ModeIEEEArithmetic", "ModeFastArithmetic", "ModeExactArithmetic"}
ErrorCodes == {"ErrOverflow", "ErrUnderflow", "ErrInvalidOperation",
               "ErrDivisionByZero", "ErrInexact", "ErrNaN", "ErrInfinity"}

\* a (Float16, error) result pair; err = "nil" when there is no error
Ret(v, e) == [v |-> v, err |-> e]

\* a float32 from its fields
F32(s, e, m) == [s |-> s, e |-> e, m |-> m]
\* a float64 from its fields
F64(s, e, hi, lo) == [s |-> s, e |-> e, hi |-> hi, lo |-> lo]

\* ------------------------------------------------------------------------
\* types.go: predicates and bit manipulation
\* ------------------------------------------------------------------------
IsZero(f) == f % 32768 = 0

Signbit(f) == f \div 32768 = 1

IsInf(f, sign) ==
  IF f % 32768 # PositiveInfinity THEN FALSE
  ELSE IF sign = 0 THEN TRUE
  ELSE (sign > 0) = (f \div 32768 = 0)

IsNaN(f) ==
  LET exp == (f % 32768) \div 1024
      mant == f % 1024
  IN exp = ExponentInfinity /\ mant # 0

IsFinite(f) == (f % 32768) \div 1024 # ExponentInfinity

IsNormal(f) ==
  LET exp == (f % 32768) \div 1024
  IN exp # ExponentZero /\ exp # ExponentInfinity

IsSubnormal(f) ==
  LET exp == (f % 32768) \div 1024
      mant == f % 1024
  IN exp = ExponentZero /\ mant # 0

Neg(f) == IF f >= 32768 THEN f - 32768 ELSE f + 32768

\* extractComponents: <<sign, exp, mant>>
extractComponents(f) == <<f \div 32768, (f % 32768) \div 1024, f % 1024>>

RECURSIVE Or(_, _)
\* bitwise OR of two naturals
Or(x, y) ==
  IF x = 0 THEN y
  ELSE IF y = 0 THEN x
  ELSE (IF (x % 2) + (y % 2) > 0 THEN 1 ELSE 0) + (2 * Or(x \div 2, y \div 2))

\* packComponents, computed in uint16: (sign << 15) | (exp << 10) | (mant & 0x3FF)
packComponents(sign, exp, mant) ==
  Or(Or(U16(sign * 32768), U16(exp * 1024)), mant % 1024)

leadingZeros10(x) ==
  IF x = 0 THEN 10 ELSE LeadingZeros16(U16(x * 64)) - 6

\* FloatClass
ClassSignalingNaN == 0
ClassQuietNaN == 1
ClassNegativeInfinity == 2
ClassNegativeNormal == 3
ClassNegativeSubnormal == 4
ClassNegativeZero == 5
ClassPositiveZero == 6
ClassPositiveSubnormal == 7
ClassPositiveNormal == 8
ClassPositiveInfinity == 9

\* Class with the quiet bit looked up one position too low (f & 0x0100)
Class_WrongQuietBit(f) ==
  IF IsNaN(f) THEN
    (IF Bit(f, 8) = 0 THEN ClassSignalingNaN ELSE ClassQuietNaN)
  ELSE LET sign == Signbit(f) IN
    IF IsInf(f, 0) THEN (IF sign THEN ClassNegativeInfinity ELSE ClassPositiveInfinity)
    ELSE IF IsZero(f) THEN (IF sign THEN ClassNegativeZero ELSE ClassPositiveZero)
    ELSE IF IsSubnormal(f)
    THEN (IF sign THEN ClassNegativeSubnormal ELSE ClassPositiveSubnormal)
    ELSE (IF sign THEN ClassNegativeNormal ELSE ClassPositiveNormal)

\* Class; the NaN is signaling when f & 0x0200 is zero
Class(f) ==
  IF IsNaN(f) THEN
    (IF Bit(f, 9) = 0 THEN ClassSignalingNaN ELSE ClassQuietNaN)
  ELSE LET sign == Signbit(f) IN
    IF IsInf(f, 0) THEN (IF sign THEN ClassNegativeInfinity ELSE ClassPositiveInfinity)
    ELSE IF IsZero(f) THEN (IF sign THEN ClassNegativeZero ELSE ClassPositiveZero)
    ELSE IF IsSubnormal(f)
    THEN (IF sign THEN ClassNegativeSubnormal ELSE ClassPositiveSubnormal)
    ELSE (IF sign THEN ClassNegativeNormal ELSE ClassPositiveNormal)

\* ------------------------------------------------------------------------
\* convert.go: widening
\* ------------------------------------------------------------------------
\* Float16.ToFloat32
\* ToFloat32 that returns the canonical quiet NaN and drops the payload
ToFloat32_CanonicalNaN(f) ==
  LET sb == IF Signbit(f) THEN 1 ELSE 0 IN
  IF IsZero(f) THEN F32(sb, 0, 0)
  ELSE IF IsNaN(f) THEN
    F32(sb, 255, 4194304)
  ELSE IF IsInf(f, 0) THEN F32(sb, 255, 0)
  ELSE
    LET c == extractComponents(f)
        sign == c[1]
        exp16 == c[2]
        mant16 == c[3]
    IN IF exp16 = 0 THEN
         IF mant16 = 0 THEN F32(sign, 0, 0)
         ELSE
           LET leadingZeros == leadingZeros10(mant16) IN
           IF leadingZeros < 0 \/ leadingZeros > 9 THEN F32(sign, 0, 0)
           ELSE
             LET shift == leadingZeros + 1
                 mantN == U16(mant16 * Pow2(shift)) % 1024
                 exp32 == Float32ExponentBias - 15 + shift
             IN IF exp32 >= 255 THEN F32(sign, 255, 0)
                ELSE IF exp32 <= 0 THEN F32(sign, 0, 0)
                ELSE F32(sign, exp32, mantN * Pow2(Float32MantissaLen - MantissaLen))
       ELSE
         F32(sign, exp16 - ExponentBias + Float32ExponentBias,
             mant16 * Pow2(Float32MantissaLen - MantissaLen))

ToFloat32(f) ==
  LET sb == IF Signbit(f) THEN 1 ELSE 0 IN
  IF IsZero(f) THEN F32(sb, 0, 0)
  ELSE IF IsNaN(f) THEN
    \* sign | 0x7FC00000 | (payload << 13)
    F32(sb, 255, Or(4194304, (f % 1024) * 8192))
  ELSE IF IsInf(f, 0) THEN F32(sb, 255, 0)
  ELSE
    LET c == extractComponents(f)
        sign == c[1]
        exp16 == c[2]
        mant16 == c[3]
    IN IF exp16 = 0 THEN
         IF mant16 = 0 THEN F32(sign, 0, 0)
         ELSE
           LET leadingZeros == leadingZeros10(mant16) IN
           IF leadingZeros < 0 \/ leadingZeros > 9 THEN F32(sign, 0, 0)
           ELSE
             LET shift == leadingZeros + 1
                 mantN == U16(mant16 * Pow2(shift)) % 1024
                 exp32 == Float32ExponentBias - 15 + shift
             IN IF exp32 >= 255 THEN F32(sign, 255, 0)
                ELSE IF exp32 <= 0 THEN F32(sign, 0, 0)
                ELSE F32(sign, exp32, mantN * Pow2(Float32MantissaLen - MantissaLen))
       ELSE
         F32(sign, exp16 - ExponentBias + Float32ExponentBias,
             mant16 * Pow2(Float32MantissaLen - MantissaLen))

\* ------------------------------------------------------------------------
\* convert.go: narrowing from float32
\* ------------------------------------------------------------------------
\* the signed zero / signed infinity of a sign bit
SignedZero(sign) == IF sign # 0 THEN NegativeZero ELSE PositiveZero
SignedInf(sign) == IF sign # 0 THEN NegativeInfinity ELSE PositiveInfinity

\* ToFloat16: conversion "using default settings"
ToFloat16(f32) ==
  LET sign == f32.s
      exp32 == f32.e
      mant32 == f32.m
  IN
  IF exp32 = 0 /\ mant32 = 0 THEN SignedZero(sign)
  ELSE IF exp32 = 255 THEN
    IF mant32 = 0 THEN SignedInf(sign)
    ELSE LET nanMant0 == Shr(mant32, 13) % 1024
             nanMant == IF nanMant0 = 0 THEN 1 ELSE nanMant0
         IN Or(Or(U16(sign * 32768), 31744), nanMant)
  ELSE IF exp32 <= 112 THEN
    IF exp32 <= 101 THEN SignedZero(sign)
    ELSE
      LET shift == 125 - exp32
          mant32i == Or(mant32, 8388608)
          mant16 == U16(Shr(mant32i, shift + 13) % 1024)
          roundBit == Bit(mant32i, shift + 12)
          stickyBit == IF LowBits(mant32i, shift + 12) # 0 THEN 1 ELSE 0
      IN IF Or(roundBit, stickyBit) # 0 THEN
           LET mant16r == U16(mant16 + 1) IN
           IF Bit(mant16r, 10) # 0 THEN
             \* mant16 = 0x0200, exp32 = 0x71
             Or(Or(U16(sign * 32768), U16((113 - 112) * 1024)), 512)
           ELSE Or(U16(sign * 32768), mant16r)
         ELSE Or(U16(sign * 32768), mant16)
  ELSE
    LET exp16 == exp32 - 112 IN
    IF exp16 >= 31 THEN SignedInf(sign)
    ELSE
      LET mant16r == U16(Shr(mant32 + 4095 + Bit(mant32, 13), 13))
          carry == Bit(mant16r, 10) # 0
          mant16 == IF carry THEN mant16r \div 2 ELSE mant16r
          exp16r == IF carry THEN exp16 + 1 ELSE exp16
      IN IF exp16r >= 31 THEN SignedInf(sign)
         ELSE Or(Or(U16(sign * 32768), U16(exp16r * 1024)), mant16 % 1024)

\* shouldRound: whether to round up a mantissa about to lose its low shift bits
shouldRound(mantissa, shift, mode) ==
  IF shift <= 0 THEN FALSE
  ELSE
    LET discardedBits == LowBits(mantissa, shift)
        guardBit == Bit(mantissa, shift - 1)
    IN CASE mode = "RoundNearestEven" ->
              IF guardBit = 0 THEN FALSE
              ELSE IF LowBits(discardedBits, shift - 1) # 0 THEN TRUE
              ELSE Bit(mantissa, shift) = 1
         [] mode = "RoundNearestAway" -> guardBit = 1
         [] mode = "RoundTowardZero" -> FALSE
         [] mode = "RoundTowardPositive" -> discardedBits # 0
         [] mode = "RoundTowardNegative" -> FALSE
         [] OTHER -> guardBit = 1

\* ToFloat16WithMode, the branch for a rebiased exponent <= 0
ToFloat16Underflow(sign32, exp32, mant32in, exp16in, convMode, roundMode) ==
  LET shift == 1 - exp16in
      mant32 == IF exp32 # 0 THEN Or(mant32in, 8388608) ELSE mant32in
      totalShift == (Float32ExponentBias - ExponentBias + 1 - 1) + shift
  IN
  IF totalShift >= 24 THEN
    IF convMode = "ModeStrict" \/ convMode = "ModeExact"
    THEN Ret(0, "ErrUnderflow")
    ELSE Ret(SignedZero(sign32), "nil")
  ELSE
    LET extraBits == IF totalShift > 22 THEN 0
                     ELSE IF totalShift > 21 THEN 1 ELSE 2
        mant16a == IF mant32 # 0 THEN U16(Shr(mant32, totalShift - extraBits)) ELSE 0
        roundBit == IF totalShift > extraBits
                    THEN Bit(mant32, totalShift - extraBits - 1) ELSE 0
        stickyBit == IF totalShift > extraBits + 1
                     THEN (IF LowBits(mant32, totalShift - extraBits - 1) # 0 THEN 1 ELSE 0)
                     ELSE 0
        up == shouldRound(mant16a, Or(roundBit, stickyBit), roundMode)
        mant16b == IF up
                   THEN (IF U16(mant16a + 1) > 1023 THEN 512 ELSE U16(mant16a + 1))
                   ELSE mant16a
    IN IF mant16b >= 1024 THEN
         LET mant16c == mant16b \div 2 IN
         IF mant16c < 1024 THEN Ret(packComponents(sign32, 1, mant16c), "nil")
         ELSE Ret(packComponents(sign32, 2, mant16c \div 2), "nil")
       ELSE Ret(packComponents(sign32, 0, mant16b), "nil")

\* ToFloat16WithMode
ToFloat16WithMode(f32, convMode, roundMode) ==
  IF f32.e = 0 /\ f32.m = 0 THEN Ret(SignedZero(f32.s), "nil")
  ELSE IF f32.e = 255 /\ f32.m = 0 THEN
    IF convMode = "ModeStrict" THEN Ret(0, "ErrInfinity")
    ELSE Ret(IF f32.s = 0 THEN PositiveInfinity ELSE NegativeInfinity, "nil")
  ELSE IF f32.e = 255 THEN
    IF convMode = "ModeStrict" THEN Ret(0, "ErrNaN")
    ELSE Ret(IF f32.s = 1 THEN NegativeQNaN ELSE QuietNaN, "nil")
  ELSE
    LET sign32 == f32.s
        exp32 == f32.e
        mant32 == f32.m
        exp16 == exp32 - Float32ExponentBias + ExponentBias
        overflow == IF convMode = "ModeStrict" \/ convMode = "ModeExact"
                    THEN Ret(0, "ErrOverflow")
                    ELSE Ret(SignedInf(sign32), "nil")
    IN
    IF exp16 >= ExponentInfinity THEN overflow
    ELSE IF exp16 <= 0 THEN
      ToFloat16Underflow(sign32, exp32, mant32, exp16, convMode, roundMode)
    ELSE
      LET mant16 == Shr(mant32, Float32MantissaLen - MantissaLen) IN
      IF shouldRound(mant32, Float32MantissaLen - MantissaLen, roundMode) THEN
        IF mant16 + 1 >= Pow2(MantissaLen) THEN
          IF exp16 + 1 >= ExponentInfinity THEN overflow
          ELSE Ret(packComponents(sign32, exp16 + 1, 0), "nil")
        ELSE Ret(packComponents(sign32, exp16, mant16 + 1), "nil")
      ELSE Ret(packComponents(sign32, exp16, mant16), "nil")

\* ------------------------------------------------------------------------
\* convert.go: batch conversion
\* ------------------------------------------------------------------------
\* a batch result: the result slice, the error slice, and whether each is nil
Slices(result, resultNil, errors, errorsNil) ==
  [result |-> result, resultNil |-> resultNil, errors |-> errors, errorsNil |-> errorsNil]

\* the indexed error stored for element i (counted from 0) of the input:
\* Op is "convert[i]", Code the code of the scalar error
IndexedErr(i, code) == [Op |-> <<"convert", i>>, Code |-> code]

RECURSIVE SliceLoop_Break(_, _, _, _, _, _)
\* the loop of ToSlice16WithMode leaving at the first failing element
SliceLoop_Break(f32s, k, result, errors, convMode, roundMode) ==
  IF k > Len(f32s) THEN Slices(result, FALSE, errors, Len(errors) = 0)
  ELSE
    LET r == ToFloat16WithMode(f32s[k], convMode, roundMode) IN
    IF r.err # "nil"
    THEN Slices([j \in 1..Len(f32s) |-> IF j < k THEN result[j] ELSE IF j = k THEN r.v ELSE 0],
                FALSE, Append(errors, IndexedErr(k - 1, r.err)), FALSE)
    ELSE SliceLoop_Break(f32s, k + 1, Append(result, r.v), errors, convMode, roundMode)

\* ToSlice16WithMode that stops converting at the first failing element
ToSlice16WithMode_Break(f32s, convMode, roundMode) ==
  IF Len(f32s) = 0 THEN Slices(<<>>, TRUE, <<>>, TRUE)
  ELSE SliceLoop_Break(f32s, 1, <<>>, <<>>, convMode, roundMode)

RECURSIVE SliceLoop(_, _, _, _, _, _)
\* the loop of ToSlice16WithMode from element k on (k counts from 1, the
\* code's index is k - 1); errors stays nil until the first failure
SliceLoop(f32s, k, result, errors, convMode, roundMode) ==
  IF k > Len(f32s) THEN Slices(result, FALSE, errors, Len(errors) = 0)
  ELSE
    LET r == ToFloat16WithMode(f32s[k], convMode, roundMode) IN
    SliceLoop(f32s, k + 1, Append(result, r.v),
              IF r.err # "nil" THEN Append(errors, IndexedErr(k - 1, r.err)) ELSE errors,
              convMode, roundMode)

\* ToSlice16WithMode
ToSlice16WithMode(f32s, convMode, roundMode) ==
  IF Len(f32s) = 0 THEN Slices(<<>>, TRUE, <<>>, TRUE)
  ELSE SliceLoop(f32s, 1, <<>>, <<>>, convMode, roundMode)

\* ------------------------------------------------------------------------
\* float32 arithmetic of the Go runtime (IEEE 754 binary32, round to nearest
\* even), on the operands the package produces: ToFloat32 returns zeros and
\* normal float32 values whose mantissa has its low 13 bits clear, so every
\* operand is a signed 11-bit significand times a power of two.
\* ------------------------------------------------------------------------
\* the 11-bit significand of a widened normal value
Sig11(x) == 1024 + (x.m \div 8192)

\* the float32 nearest to (n + fraction) * 2^unitExp, where sticky = 1 says
\* that a nonzero fraction below the unit of n was left out
RoundToF32(s, n, sticky, unitExp) ==
  LET len == Len32(n)
      e == unitExp + (len - 1) + Float32ExponentBias
  IN IF len <= 24 THEN F32(s, e, (n * Pow2(24 - len)) - 8388608)
     ELSE
       LET drop == len - 24
           kept == n \div Pow2(drop)
           rem == n % Pow2(drop)
           half == Pow2(drop - 1)
           up == rem > half \/ (rem = half /\ (sticky = 1 \/ kept % 2 = 1))
           sig == IF up THEN kept + 1 ELSE kept
       IN IF sig = 16777216
          THEN (IF e + 1 >= 255 THEN F32(s, 255, 0) ELSE F32(s, e + 1, 0))
          ELSE F32(s, e, sig - 8388608)

F32IsZero(x) == x.e = 0 /\ x.m = 0

\* f32a < f32b
F32Less(x, y) ==
  IF (x.e = 255 /\ x.m # 0) \/ (y.e = 255 /\ y.m # 0) THEN FALSE
  ELSE IF F32IsZero(x) /\ F32IsZero(y) THEN FALSE
  ELSE IF x.s # y.s THEN x.s = 1
  ELSE LET below == x.e < y.e \/ (x.e = y.e /\ x.m < y.m)
           above == x.e > y.e \/ (x.e = y.e /\ x.m > y.m)
       IN IF x.s = 1 THEN above ELSE below

\* f32a * f32b
F32Mul(x, y) ==
  LET s == (x.s + y.s) % 2 IN
  IF F32IsZero(x) \/ F32IsZero(y) THEN F32(s, 0, 0)
  ELSE RoundToF32(s, Sig11(x) * Sig11(y), 0, (x.e - 137) + (y.e - 137))

\* f32a / f32b; nanSign is the sign bit of the NaN that 0/0 produces, which
\* depends on the target architecture
F32Div(x, y, nanSign) ==
  LET s == (x.s + y.s) % 2 IN
  IF F32IsZero(y) THEN
    IF F32IsZero(x) THEN F32(nanSign, 255, 4194304) ELSE F32(s, 255, 0)
  ELSE IF F32IsZero(x) THEN F32(s, 0, 0)
  ELSE
    LET sa == Sig11(x)
        sb == Sig11(y)
        q1 == (sa * 8192) \div sb
        r1 == (sa * 8192) % sb
        q2 == (r1 * 4096) \div sb
        r2 == (r1 * 4096) % sb
        \* floor(sa * 2^25 / sb) and whether a remainder is left
        q == (q1 * 4096) + q2
    IN RoundToF32(s, q, IF r2 # 0 THEN 1 ELSE 0, (x.e - y.e) - 25)

\* f32a + f32b
F32Add(x, y) ==
  IF F32IsZero(x) /\ F32IsZero(y) THEN F32(IF x.s = y.s THEN x.s ELSE 0, 0, 0)
  ELSE IF F32IsZero(x) THEN y
  ELSE IF F32IsZero(y) THEN x
  ELSE
    LET xBig == x.e > y.e \/ (x.e = y.e /\ x.m >= y.m)
        big == IF xBig THEN x ELSE y
        small == IF xBig THEN y ELSE x
        d == big.e - small.e
        up == IF d > 19 THEN 19 ELSE d
        down == d - up
        bigN == Sig11(big) * Pow2(up)
        smallN == Sig11(small) \div Pow2(down)
        lost == IF Sig11(small) % Pow2(down) # 0 THEN 1 ELSE 0
        unit == (small.e - 137) + down
    IN IF big.s = small.s THEN RoundToF32(big.s, bigN + smallN, lost, unit)
       ELSE IF bigN = smallN /\ lost = 0 THEN F32(0, 0, 0)
       ELSE RoundToF32(big.s, (bigN - smallN) - lost, lost, unit)

\* ------------------------------------------------------------------------
\* arithmetic: the IEEE 754 implementations
\* ------------------------------------------------------------------------
\* addIEEE754, from the aligned operands on: A is the operand of larger
\* magnitude, a the first argument of the call
addAligned(a, signA, expA, mantA, signB, expB, mantB0) ==
  LET expDiff == expA - expB IN
  IF expDiff > 0 /\ expDiff >= 24 THEN Ret(a, "nil")
  ELSE
    LET mantB == IF expDiff > 0 THEN Shr(mantB0, expDiff) ELSE mantB0
        resultSign == IF signA = signB THEN signA
                      ELSE IF mantA >= mantB THEN signA ELSE signB
        resultMant0 == IF signA = signB THEN mantA + mantB
                       ELSE IF mantA >= mantB THEN mantA - mantB ELSE mantB - mantA
        resultExp0 == expA
    IN
    IF resultMant0 = 0 THEN Ret(PositiveZero, "nil")
    ELSE
      LET carry == resultMant0 >= Pow2(MantissaLen + 1)
          leadingZeros == 31 - Len32(resultMant0)
          shift == leadingZeros - (31 - MantissaLen - 1)
          left == ~carry /\ leadingZeros > 0 /\ shift > 0
          resultMant1 == IF carry THEN resultMant0 \div 2
                         ELSE IF left THEN resultMant0 * Pow2(shift)
                         ELSE resultMant0
          resultExp1 == IF carry THEN resultExp0 + 1
                        ELSE IF left THEN resultExp0 - shift
                        ELSE resultExp0
      IN
      IF resultExp1 >= ExponentInfinity THEN Ret(SignedInf(resultSign), "nil")
      ELSE IF resultExp1 <= 0 THEN
        LET shiftU == 1 - resultExp1 IN
        IF shiftU >= 24 THEN Ret(SignedZero(resultSign), "nil")
        ELSE Ret(packComponents(resultSign, 0, U16(Shr(resultMant1, shiftU))), "nil")
      ELSE
        Ret(packComponents(resultSign, U16(resultExp1), U16(resultMant1 % 1024)), "nil")

\* addIEEE754; a shift of a uint16 by a negative count panics
addIEEE754(a, b, rounding) ==
  LET ca == extractComponents(a)
      cb == extractComponents(b)
      swap == ca[2] < cb[2] \/ (ca[2] = cb[2] /\ ca[3] < cb[3])
      A == IF swap THEN cb ELSE ca
      B == IF swap THEN ca ELSE cb
      normA == A[2] = 0 /\ A[3] # 0
      normB == B[2] = 0 /\ B[3] # 0
      shiftA == leadingZeros10(A[3])
      shiftB == leadingZeros10(B[3])
  IN
  IF (normA /\ shiftA + 1 < 0) \/ (normB /\ shiftB + 1 < 0) THEN Ret(0, "panic")
  ELSE
    LET mantA == IF normA THEN U16(A[3] * Pow2(shiftA + 1)) % 1024
                 ELSE IF A[2] # 0 THEN Or(A[3], Pow2(MantissaLen)) ELSE A[3]
        expA == IF normA THEN U16(1 - shiftA) ELSE A[2]
        mantB == IF normB THEN U16(B[3] * Pow2(shiftB + 1)) % 1024
                 ELSE IF B[2] # 0 THEN Or(B[3], Pow2(MantissaLen)) ELSE B[3]
        expB == IF normB THEN U16(1 - shiftB) ELSE B[2]
    IN addAligned(a, A[1], expA, mantA, B[1], expB, mantB)

\* mulIEEE754 with the first operand used twice (f32a * f32a)
mulIEEE754_Square(a, b, rounding) ==
  ToFloat16WithMode(F32Mul(ToFloat32(a), ToFloat32(a)), "ModeIEEE", rounding)

\* mulIEEE754
mulIEEE754(a, b, rounding) ==
  ToFloat16WithMode(F32Mul(ToFloat32(a), ToFloat32(b)), "ModeIEEE", rounding)

\* divIEEE754
divIEEE754(a, b, rounding, nanSign) ==
  ToFloat16WithMode(F32Div(ToFloat32(a), ToFloat32(b), nanSign), "ModeExact", rounding)

\* ------------------------------------------------------------------------
\* arithmetic: the operators with modes
\* ------------------------------------------------------------------------
\* the zero / infinity carrying the XOR of the operands' sign bits
XorZero(a, b) == IF Signbit(a) # Signbit(b) THEN NegativeZero ELSE PositiveZero
XorInf(a, b) == IF Signbit(a) # Signbit(b) THEN NegativeInfinity ELSE PositiveInfinity

\* the result of an invalid operation: an error in exact mode, else QuietNaN
ExactOr(mode, code) ==
  IF mode = "ModeExactArithmetic" THEN Ret(0, code) ELSE Ret(QuietNaN, "nil")

\* AddWithMode whose second zero test returns the zero instead of the other
\* operand
AddWithMode_ReturnsB(a, b, mode, rounding) ==
  IF IsZero(a) THEN Ret(b, "nil")
  ELSE IF IsZero(b) THEN Ret(b, "nil")
  ELSE IF IsNaN(a) \/ IsNaN(b) THEN ExactOr(mode, "ErrNaN")
  ELSE IF IsInf(a, 0) \/ IsInf(b, 0) THEN
    IF IsInf(a, 1) /\ IsInf(b, -1) THEN ExactOr(mode, "ErrInvalidOperation")
    ELSE IF IsInf(a, -1) /\ IsInf(b, 1) THEN ExactOr(mode, "ErrInvalidOperation")
    ELSE IF IsInf(a, 0) THEN Ret(a, "nil")
    ELSE Ret(b, "nil")
  ELSE IF mode = "ModeFastArithmetic" THEN
    ToFloat16WithMode(F32Add(ToFloat32(a), ToFloat32(b)), "ModeIEEE", rounding)
  ELSE addIEEE754(a, b, rounding)

AddWithMode(a, b, mode, rounding) ==
  IF IsZero(a) THEN Ret(b, "nil")
  ELSE IF IsZero(b) THEN Ret(a, "nil")
  ELSE IF IsNaN(a) \/ IsNaN(b) THEN ExactOr(mode, "ErrNaN")
  ELSE IF IsInf(a, 0) \/ IsInf(b, 0) THEN
    IF IsInf(a, 1) /\ IsInf(b, -1) THEN ExactOr(mode, "ErrInvalidOperation")
    ELSE IF IsInf(a, -1) /\ IsInf(b, 1) THEN ExactOr(mode, "ErrInvalidOperation")
    ELSE IF IsInf(a, 0) THEN Ret(a, "nil")
    ELSE Ret(b, "nil")
  ELSE IF mode = "ModeFastArithmetic" THEN
    ToFloat16WithMode(F32Add(ToFloat32(a), ToFloat32(b)), "ModeIEEE", rounding)
  ELSE addIEEE754(a, b, rounding)

SubWithMode(a, b, mode, rounding) == AddWithMode(a, Neg(b), mode, rounding)

\* MulWithMode without the leading zero-times-infinity test: the zero test
\* comes first
MulWithMode_ZeroFirst(a, b, mode, rounding) ==
  IF IsZero(a) \/ IsZero(b) THEN Ret(XorZero(a, b), "nil")
  ELSE IF IsNaN(a) \/ IsNaN(b) THEN ExactOr(mode, "ErrNaN")
  ELSE IF IsInf(a, 0) \/ IsInf(b, 0) THEN
    IF (IsInf(a, 0) /\ IsZero(b)) \/ (IsZero(a) /\ IsInf(b, 0))
    THEN ExactOr(mode, "ErrInvalidOperation")
    ELSE Ret(XorInf(a, b), "nil")
  ELSE IF mode = "ModeFastArithmetic" THEN
    ToFloat16WithMode(F32Mul(ToFloat32(a), ToFloat32(b)), "ModeIEEE", rounding)
  ELSE mulIEEE754(a, b, rounding)

MulWithMode(a, b, mode, rounding) ==
  IF (IsZero(a) /\ IsInf(b, 0)) \/ (IsInf(a, 0) /\ IsZero(b))
  THEN ExactOr(mode, "ErrInvalidOperation")
  ELSE IF IsZero(a) \/ IsZero(b) THEN Ret(XorZero(a, b), "nil")
  ELSE IF IsNaN(a) \/ IsNaN(b) THEN ExactOr(mode, "ErrNaN")
  ELSE IF IsInf(a, 0) \/ IsInf(b, 0) THEN
    IF (IsInf(a, 0) /\ IsZero(b)) \/ (IsZero(a) /\ IsInf(b, 0))
    THEN ExactOr(mode, "ErrInvalidOperation")
    ELSE Ret(XorInf(a, b), "nil")
  ELSE IF mode = "ModeFastArithmetic" THEN
    ToFloat16WithMode(F32Mul(ToFloat32(a), ToFloat32(b)), "ModeIEEE", rounding)
  ELSE mulIEEE754(a, b, rounding)

\* DivWithMode whose division by zero ignores the operands' signs
DivWithMode_UnsignedInf(a, b, mode, rounding, nanSign) ==
  IF IsZero(b) THEN
    IF IsZero(a) THEN ExactOr(mode, "ErrInvalidOperation")
    ELSE IF mode = "ModeExactArithmetic" THEN Ret(0, "ErrDivisionByZero")
    ELSE Ret(PositiveInfinity, "nil")
  ELSE IF IsZero(a) THEN Ret(XorZero(a, b), "nil")
  ELSE IF IsInf(a, 0) \/ IsInf(b, 0) THEN
    IF IsInf(a, 0) /\ IsInf(b, 0) THEN ExactOr(mode, "ErrInvalidOperation")
    ELSE IF IsInf(a, 0) THEN Ret(XorInf(a, b), "nil")
    ELSE Ret(XorZero(a, b), "nil")
  ELSE IF IsNaN(a) \/ IsNaN(b) THEN ExactOr(mode, "ErrNaN")
  ELSE IF IsInf(a, 0) /\ IsInf(b, 0) THEN ExactOr(mode, "ErrInvalidOperation")
  ELSE IF IsInf(a, 0) THEN Ret(XorInf(a, b), "nil")
  ELSE IF IsInf(b, 0) THEN Ret(XorZero(a, b), "nil")
  ELSE IF mode = "ModeFastArithmetic" THEN
    ToFloat16WithMode(F32Div(ToFloat32(a), ToFloat32(b), nanSign), "ModeIEEE", rounding)
  ELSE divIEEE754(a, b, rounding, nanSign)

DivWithMode(a, b, mode, rounding, nanSign) ==
  IF IsZero(b) THEN
    IF IsZero(a) THEN ExactOr(mode, "ErrInvalidOperation")
    ELSE IF mode = "ModeExactArithmetic" THEN Ret(0, "ErrDivisionByZero")
    ELSE Ret(XorInf(a, b), "nil")
  ELSE IF IsZero(a) THEN Ret(XorZero(a, b), "nil")
  ELSE IF IsInf(a, 0) \/ IsInf(b, 0) THEN
    IF IsInf(a, 0) /\ IsInf(b, 0) THEN ExactOr(mode, "ErrInvalidOperation")
    ELSE IF IsInf(a, 0) THEN Ret(XorInf(a, b), "nil")
    ELSE Ret(XorZero(a, b), "nil")
  ELSE IF IsNaN(a) \/ IsNaN(b) THEN ExactOr(mode, "ErrNaN")
  ELSE IF IsInf(a, 0) /\ IsInf(b, 0) THEN ExactOr(mode, "ErrInvalidOperation")
  ELSE IF IsInf(a, 0) THEN Ret(XorInf(a, b), "nil")
  ELSE IF IsInf(b, 0) THEN Ret(XorZero(a, b), "nil")
  ELSE IF mode = "ModeFastArithmetic" THEN
    ToFloat16WithMode(F32Div(ToFloat32(a), ToFloat32(b), nanSign), "ModeIEEE", rounding)
  ELSE divIEEE754(a, b, rounding, nanSign)

\* ------------------------------------------------------------------------
\* comparison
\* ------------------------------------------------------------------------
Equal(a, b) ==
  IF IsNaN(a) \/ IsNaN(b) THEN FALSE
  ELSE IF IsZero(a) /\ IsZero(b) THEN TRUE
  ELSE a = b

\* Less that compares two negative operands like two positive ones
Less_NoFlip(a, b) ==
  IF IsNaN(a) \/ IsNaN(b) THEN FALSE
  ELSE IF IsZero(a) /\ IsZero(b) THEN FALSE
  ELSE IF Signbit(a) /\ ~Signbit(b) THEN TRUE
  ELSE IF ~Signbit(a) /\ Signbit(b) THEN FALSE
  ELSE a < b

Less(a, b) ==
  IF IsNaN(a) \/ IsNaN(b) THEN FALSE
  ELSE IF IsZero(a) /\ IsZero(b) THEN FALSE
  ELSE IF Signbit(a) /\ ~Signbit(b) THEN TRUE
  ELSE IF ~Signbit(a) /\ Signbit(b) THEN FALSE
  ELSE IF Signbit(a) THEN a > b
  ELSE a < b

Greater(a, b) == Less(b, a)

LessEqual(a, b) == Less(a, b) \/ Equal(a, b)

GreaterEqual(a, b) == Greater(a, b) \/ Equal(a, b)

\* Min that tests Greater instead of Less
Min_Greater(a, b) ==
  IF IsNaN(a) THEN b
  ELSE IF IsNaN(b) THEN a
  ELSE IF Greater(a, b) THEN a
  ELSE b

Min(a, b) ==
  IF IsNaN(a) THEN b
  ELSE IF IsNaN(b) THEN a
  ELSE IF Less(a, b) THEN a
  ELSE b

Max(a, b) ==
  IF IsNaN(a) THEN b
  ELSE IF IsNaN(b) THEN a
  ELSE IF Greater(a, b) THEN a
  ELSE b

\* ------------------------------------------------------------------------
\* float16.go: NextAfter
\* ------------------------------------------------------------------------
NextAfter(f, g) ==
  IF IsNaN(f) \/ IsNaN(g) THEN QuietNaN
  ELSE IF Equal(f, g) THEN g
  ELSE IF IsZero(f) THEN (IF Signbit(g) THEN 32769 ELSE 1)
  ELSE IF F32Less(ToFloat32(f), ToFloat32(g)) = ~Signbit(f)
  THEN U16(f + 1)
  ELSE U16(f + 65535)

\* ------------------------------------------------------------------------
\* convert.go: narrowing from float64
\* ------------------------------------------------------------------------
\* the rounding switch of FromFloat64WithMode
roundUp64(roundMode, sign, guardBit, roundBit, stickyBit, mant16) ==
  CASE roundMode = "RoundNearestEven" ->
         guardBit = 1 /\ (roundBit = 1 \/ stickyBit = 1 \/ mant16 % 2 = 1)
    [] roundMode = "RoundTowardZero" -> FALSE
    [] roundMode = "RoundTowardPositive" ->
         sign = 0 /\ (guardBit = 1 \/ roundBit = 1 \/ stickyBit = 1)
    [] roundMode = "RoundTowardNegative" ->
         sign = 1 /\ (guardBit = 1 \/ roundBit = 1 \/ stickyBit = 1)
    [] roundMode = "RoundNearestAway" ->
         guardBit = 1 /\ (roundBit = 1 \/ stickyBit = 1)
    [] OTHER -> FALSE

\* FromFloat64WithMode, after the strict-mode checks
FromFloat64Bits(f64, convMode, roundMode) ==
  LET sign == f64.s
      subnormal == f64.e = 0 /\ (f64.hi # 0 \/ f64.lo # 0)
      mantLen == IF f64.hi # 0 THEN 26 + Len32(f64.hi) ELSE Len32(f64.lo)
      \* the normalising loop runs until bit 52 is set
      exp64 == IF subnormal THEN (1 - 1023) - (53 - mantLen) ELSE f64.e
      exp16 == exp64 - 1023 + 15
  IN
  IF exp16 >= 31 THEN
    IF convMode = "ModeStrict" THEN Ret(0, "ErrOverflow")
    ELSE Ret(Or(U16(sign * 32768), 31744), "nil")
  ELSE IF exp16 > 0 THEN
    LET mant16 == Shr(f64.hi, 16) % 1024
        guardBit == Bit(f64.hi, 15)
        roundBit == Bit(f64.hi, 14)
        stickyBit == IF f64.hi % 16384 # 0 \/ f64.lo # 0 THEN 1 ELSE 0
    IN IF roundUp64(roundMode, sign, guardBit, roundBit, stickyBit, mant16) THEN
         LET carry == Bit(mant16 + 1, 10) # 0
             mant16r == IF carry THEN (mant16 + 1) \div 2 ELSE mant16 + 1
             exp16r == IF carry THEN exp16 + 1 ELSE exp16
         IN IF carry /\ exp16r >= 31 THEN
              IF convMode = "ModeStrict" THEN Ret(0, "ErrOverflow")
              ELSE Ret(Or(U16(sign * 32768), 31744), "nil")
            ELSE Ret(Or(Or(U16(sign * 32768), U16(exp16r * 1024)), mant16r % 1024), "nil")
       ELSE Ret(Or(Or(U16(sign * 32768), U16(exp16 * 1024)), mant16), "nil")
  ELSE
    LET shift == 1 - exp16 IN
    IF shift > 10 + 1 THEN Ret(SignedZero(sign), "nil")
    ELSE
      \* (0x8000000000000 | mant64) >> (shift + 42): the constant is bit 51
      LET mant16 == U16(Shr(Or(f64.hi, 33554432), shift + 16))
          guardBit == Bit(f64.hi, shift + 15)
          roundBit == Bit(f64.hi, shift + 14)
          stickyBit == IF LowBits(f64.hi, shift + 14) # 0 \/ f64.lo # 0 THEN 1 ELSE 0
          mant16r == IF roundUp64(roundMode, sign, guardBit, roundBit, stickyBit, mant16)
                     THEN U16(mant16 + 1) ELSE mant16
      IN IF Bit(mant16r, 10) # 0 THEN Ret(Or(U16(sign * 32768), 1024), "nil")
         ELSE Ret(Or(U16(sign * 32768), mant16r % 1024), "nil")

RECURSIVE FromFloat32(_)
\* FromFloat32
FromFloat32(f32) ==
  LET sign == f32.s
      exp32 == f32.e
      mant32 == f32.m
  IN
  IF exp32 = 0 /\ mant32 = 0 THEN SignedZero(sign)
  ELSE IF exp32 = 255 /\ mant32 = 0 THEN SignedInf(sign)
  ELSE IF exp32 = 255 THEN (IF sign # 0 THEN NegativeQNaN ELSE QuietNaN)
  ELSE IF exp32 = 0 THEN
    \* the constants SmallestNonzeroFloat32/2 and /1024 are 0 as float32, so
    \* the first test holds of the negative subnormals and the second of none
    IF sign # 0 THEN NegativeZero
    ELSE
      \* scaled := f32 * 1024, exact: still subnormal, or normal with
      \* exponent field bits - 13
      LET bits == Len32(mant32) IN
      IF bits + 10 <= 23 THEN FromFloat32(F32(0, 0, mant32 * 1024))
      ELSE FromFloat32(F32(0, bits - 13, (mant32 * Pow2(24 - bits)) - 8388608))
  ELSE
    LET exp16 == exp32 - 127 + 15 IN
    IF exp16 >= 31 THEN Or(U16(sign * 32768), 31744)
    ELSE IF exp16 > 0 THEN
      LET mant16r == U16((Shr(mant32, 13) % 1024) + Bit(mant32, 12))
          carry == Bit(mant16r, 10) # 0
          mant16 == IF carry THEN mant16r \div 2 ELSE mant16r
          exp16r == IF carry THEN exp16 + 1 ELSE exp16
      IN IF carry /\ exp16r >= 31 THEN Or(U16(sign * 32768), 31744)
         ELSE Or(Or(U16(sign * 32768), U16(exp16r * 1024)), mant16 % 1024)
    ELSE
      LET shift == 1 - exp16 IN
      IF shift > 10 + 1 + 127 THEN SignedZero(sign)
      ELSE
        \* a uint32 shifted right by 32 or more is 0
        LET mant16s == IF shift + 12 >= 32 THEN 0
                       ELSE U16(Shr(Or(8388608, mant32), shift + 12)) \div 2
            mant16 == IF mant16s = 0 THEN 1 ELSE mant16s
        IN Or(U16(sign * 32768), mant16 % 1024)

\* FromFloat64
FromFloat64(f64) ==
  LET sign == f64.s
      exp64 == f64.e
      zeroMant == f64.hi = 0 /\ f64.lo = 0
  IN
  IF exp64 = 0 /\ zeroMant THEN SignedZero(sign)
  ELSE IF exp64 = 2047 /\ zeroMant THEN SignedInf(sign)
  ELSE IF exp64 = 2047 THEN (IF sign # 0 THEN NegativeQNaN ELSE QuietNaN)
  ELSE IF exp64 = 0 THEN
    \* every subnormal float64 is below SmallestNonzeroFloat32
    SignedZero(sign)
  ELSE
    LET exp16 == exp64 - 1023 + 15 IN
    IF exp16 >= 31 THEN Or(U16(sign * 32768), 31744)
    ELSE IF exp16 > 0 THEN
      LET mant16r == U16((Shr(f64.hi, 16) % 1024) + Bit(f64.hi, 15))
          carry == Bit(mant16r, 10) # 0
          mant16 == IF carry THEN mant16r \div 2 ELSE mant16r
          exp16r == IF carry THEN exp16 + 1 ELSE exp16
      IN IF carry /\ exp16r >= 31 THEN Or(U16(sign * 32768), 31744)
         ELSE Or(Or(U16(sign * 32768), U16(exp16r * 1024)), mant16 % 1024)
    ELSE
      LET shift == 1 - exp16 IN
      IF shift > 10 + 1 + 1022 THEN SignedZero(sign)
      ELSE
        \* (0x8000000000000 | mant64) >> (shift + 41): the constant is bit
        \* 51, bit 25 of hi; a uint64 shifted right by 64 or more is 0
        LET mant16s == IF shift + 15 >= 26 THEN 0
                       ELSE U16(Shr(Or(f64.hi, 33554432), shift + 15)) \div 2
            mant16 == IF mant16s = 0 THEN 1 ELSE mant16s
        IN Or(U16(sign * 32768), mant16 % 1024)

\* FromFloat64WithMode
FromFloat64WithMode(f64, convMode, roundMode) ==
  LET top10 == Shr(f64.hi, 16)
      rest == (f64.hi % 65536) + f64.lo
      \* |f64| > 65504.0, for a finite f64
      tooLarge == f64.e > 1038 \/ (f64.e = 1038 /\ top10 = 1023 /\ rest # 0)
      \* |f64| < 2^-14
      tooSmall == f64.e < 1009
  IN
  IF f64.e = 0 /\ f64.hi = 0 /\ f64.lo = 0 THEN Ret(SignedZero(f64.s), "nil")
  ELSE IF convMode = "ModeStrict" /\ f64.e = 2047 /\ f64.hi = 0 /\ f64.lo = 0
    THEN Ret(0, "ErrInfinity")
  ELSE IF convMode = "ModeStrict" /\ f64.e = 2047 THEN Ret(0, "ErrNaN")
  ELSE IF convMode = "ModeStrict" /\ tooLarge THEN Ret(0, "ErrOverflow")
  ELSE IF convMode = "ModeStrict" /\ tooSmall THEN Ret(0, "ErrUnderflow")
  ELSE FromFloat64Bits(f64, convMode, roundMode)

\* ------------------------------------------------------------------------
\* Input sets
\* ------------------------------------------------------------------------
Near(v, landmarks, spread) == \E c \in landmarks : v >= c - spread /\ v <= c + spread

\* half mantissas around zero, the midpoint and the all-ones mantissa
MantSamples == {m \in 0..1023 : Near(m, {0, 512, 1023}, MantSpread)}
\* half exponent fields: subnormal, smallest and largest normal, one, infinity
ExpSamples == {e \in 0..31 : Near(e, {0, 1, 15, 30, 31}, ExpSpread)}
HalfSamples == {(s * 32768) + (e * 1024) + m : s \in {0, 1}, e \in ExpSamples, m \in MantSamples}
AllHalf == 0..65535

\* float32 exponent fields: zero/subnormal, 2^-25, 2^-24, 2^-15, 2^-14, one,
\* 2^15, 2^16, infinity/NaN
F32ExpSamples == {e \in 0..255 : Near(e, {0, 102, 103, 112, 113, 127, 142, 143, 255}, ExpSpread)}
\* the 13 mantissa bits a half cannot hold: zero, below, at and above the tie
LowSamples == {0, 1, 4095, 4096, 4097, 8191}
F32Samples == {F32(s, e, (hi * 8192) + lo) :
                 s \in {0, 1}, e \in F32ExpSamples, hi \in MantSamples, lo \in LowSamples}

\* elements of a batch: 1.0, 65536 and -65536 (overflow), 2^-25 (underflow),
\* a NaN
BatchElems == {F32(0, 127, 0), F32(0, 143, 0), F32(1, 143, 0), F32(0, 102, 0), F32(0, 255, 1)}
RECURSIVE SeqsUpTo(_, _)
\* the sequences over S of length at most n
SeqsUpTo(S, n) ==
  IF n = 0 THEN {<<>>}
  ELSE LET shorter == SeqsUpTo(S, n - 1)
       IN shorter \cup {Append(q, e) : q \in {t \in shorter : Len(t) = n - 1}, e \in S}
BatchSamples == SeqsUpTo(BatchElems, MaxBatch)

\* float32 and float64 values below 2^-25 in magnitude
TinyF32 == {F32(s, e, m) : s \in {0, 1}, e \in {1, 64, 101}, m \in {0, 1, 8388607}}
TinyF64 == {F64(s, e, hi, 0) : s \in {0, 1}, e \in {1, 512, 997}, hi \in {0, 1, 67108863}}

\* operands of the operators called between configuration changes: zeros,
\* the smallest subnormal, 1, 1 + ulp, 3, the largest finite value, an
\* infinity and a NaN
ConfigOperands == {0, 32768, 1, 15360, 15361, 16896, 31743, 31744, 32256}

\* float64 exponent fields: zero/subnormal, 2^-25, 2^-15, 2^-14, one, 2^15,
\* 2^16, infinity/NaN
F64ExpSamples == {e \in 0..2047 : Near(e, {0, 998, 1008, 1009, 1023, 1038, 1039, 2047}, ExpSpread)}
\* bits 41..26 of the float64 mantissa
MidSamples == {0, 1, 16384, 32768, 32769, 65535}
F64Samples == {F64(s, e, (top * 65536) + mid, lo) :
                 s \in {0, 1}, e \in F64ExpSamples, top \in MantSamples,
                 mid \in MidSamples, lo \in {0, 1}}

\* ------------------------------------------------------------------------
\* State: the package variables and the last call with its result
\* ------------------------------------------------------------------------
VARIABLES DefaultConversionMode, DefaultRoundingMode,
          DefaultArithmeticMode, DefaultRounding,
          op, a, b, x, y, cmode, amode, rnd, nanSign, out, wide, flag,
          batch, slices,
          config,      \* the package's config pointer: the address it holds
          heap,        \* the Config object at each address
          got,         \* the address of the copy GetConfig returned last
          applied,     \* the fields Configure's argument had when last called
          pc,          \* what each goroutine does next
          configMutex, \* the goroutine holding the write lock, the read lockers
          parg         \* the argument of each goroutine's Configure call

modeVars == <<DefaultConversionMode, DefaultRoundingMode,
              DefaultArithmeticMode, DefaultRounding>>
heapVars == <<config, heap, got, applied>>
procVars == <<pc, configMutex, parg>>
cfgVars == <<DefaultConversionMode, DefaultRoundingMode,
             DefaultArithmeticMode, DefaultRounding,
             config, heap, got, applied, pc, configMutex, parg>>
callVars == <<op, a, b, x, y, cmode, amode, rnd, nanSign, out, wide, flag, batch, slices>>
vars == <<DefaultConversionMode, DefaultRoundingMode,
          DefaultArithmeticMode, DefaultRounding,
          op, a, b, x, y, cmode, amode, rnd, nanSign, out, wide, flag,
          batch, slices,
          config, heap, got, applied, pc, configMutex, parg>>

\* a Config value
Config(cm, rm, am, fm) ==
  [DefaultConversionMode |-> cm, DefaultRoundingMode |-> rm,
   DefaultArithmeticMode |-> am, EnableFastMath |-> fm]
DefaultConfig == Config("ModeIEEE", "RoundNearestEven", "ModeIEEEArithmetic", FALSE)
\* the Config TestConfiguration applies
CustomConfig == Config("ModeStrict", "RoundTowardZero", "ModeFastArithmetic", TRUE)
ExactConfig == Config("ModeExact", "RoundNearestAway", "ModeExactArithmetic", FALSE)
\* the Config values a caller builds
ConfigValues == {DefaultConfig, CustomConfig, ExactConfig}
\* address 0 is the object DefaultConfig() made when the package was
\* initialised; the others are the objects the caller holds
CallerAddrs == 1..NumConfigs
Addrs == 0..NumConfigs
Procs == 1..NumProcs
Unlocked == [writer |-> 0, readers |-> {}]
\* a goroutine's position: the function it is in and the step it takes next
At(fn, step) == <<fn, step>>
NotCalling == At("none", "none")
Operators == {"Add", "Sub", "Mul", "Div"}

NoF32 == F32(0, 0, 0)
NoF64 == F64(0, 0, 0, 0)
NoSlices == Slices(<<>>, TRUE, <<>>, TRUE)

\* no call is outstanding
Idle == op = "none"

\* records a call: its name, its arguments and what it returned
Call(o, av, bv, xv, yv, cm, am, r, ns, ov, wv) ==
  /\ op' = o
  /\ a' = av
  /\ b' = bv
  /\ x' = xv
  /\ y' = yv
  /\ cmode' = cm
  /\ amode' = am
  /\ rnd' = r
  /\ nanSign' = ns
  /\ out' = ov
  /\ wide' = wv
  /\ flag' = FALSE
  /\ UNCHANGED <<batch, slices>>
  /\ UNCHANGED cfgVars

\* records a call that returns a bool
CallBool(o, av, bv, fv) ==
  /\ op' = o
  /\ a' = av
  /\ b' = bv
  /\ flag' = fv
  /\ UNCHANGED <<x, y, cmode, amode, rnd, nanSign, out, wide, batch, slices>>
  /\ UNCHANGED cfgVars

\* records a batch call: its input slice and the two slices it returned
CallBatch(o, xs, cm, r, sv) ==
  /\ op' = o
  /\ batch' = xs
  /\ cmode' = cm
  /\ rnd' = r
  /\ slices' = sv
  /\ UNCHANGED <<a, b, x, y, amode, nanSign, out, wide, flag>>
  /\ UNCHANGED cfgVars

Init ==
  /\ DefaultConversionMode = "ModeIEEE"
  /\ DefaultRoundingMode = "RoundNearestEven"
  /\ DefaultArithmeticMode = "ModeIEEEArithmetic"
  /\ DefaultRounding = "RoundNearestEven"
  /\ op = "none"
  /\ a = 0
  /\ b = 0
  /\ x = NoF32
  /\ y = NoF64
  /\ cmode = "ModeIEEE"
  /\ amode = "ModeIEEEArithmetic"
  /\ rnd = "RoundNearestEven"
  /\ nanSign = 0
  /\ out = Ret(0, "nil")
  /\ wide = NoF32
  /\ flag = FALSE
  /\ batch = <<>>
  /\ slices = NoSlices
  /\ config = 0
  \* the caller has built its first object as TestConfiguration does
  /\ heap = [p \in Addrs |-> IF p = 0 THEN DefaultConfig
                             ELSE IF p = 1 THEN CustomConfig ELSE ExactConfig]
  /\ got = 0
  /\ applied = DefaultConfig
  /\ pc = [p \in Procs |-> NotCalling]
  /\ configMutex = Unlocked
  /\ parg = [p \in Procs |-> 0]

\* v.ToFloat32()
CallToFloat32(halves) ==
  Idle /\ \E v \in halves :
    Call("ToFloat32", v, 0, NoF32, NoF64, "ModeIEEE", "ModeIEEEArithmetic",
         "RoundNearestEven", 0, Ret(0, "nil"), ToFloat32(v))

\* ToFloat16(f)
CallToFloat16 ==
  Idle /\ \E f \in F32Samples :
    Call("ToFloat16", 0, 0, f, NoF64, "ModeIEEE", "ModeIEEEArithmetic",
         "RoundNearestEven", 0, Ret(ToFloat16(f), "nil"), NoF32)

\* ToFloat16WithMode(f, cm, r)
CallToFloat16WithMode ==
  Idle /\ \E f \in F32Samples, cm \in ConversionModes, r \in RoundingModes :
    Call("ToFloat16WithMode", 0, 0, f, NoF64, cm, "ModeIEEEArithmetic",
         r, 0, ToFloat16WithMode(f, cm, r), NoF32)

\* FromFloat64WithMode(d, cm, r)
CallFromFloat64WithMode ==
  Idle /\ \E d \in F64Samples, cm \in ConversionModes, r \in RoundingModes :
    Call("FromFloat64WithMode", 0, 0, NoF32, d, cm, "ModeIEEEArithmetic",
         r, 0, FromFloat64WithMode(d, cm, r), NoF32)

\* FromFloat32(f)
CallFromFloat32 ==
  Idle /\ \E f \in F32Samples \cup TinyF32 :
    Call("FromFloat32", 0, 0, f, NoF64, "ModeIEEE", "ModeIEEEArithmetic",
         "RoundNearestEven", 0, Ret(FromFloat32(f), "nil"), NoF32)

\* FromFloat64(d)
CallFromFloat64 ==
  Idle /\ \E d \in F64Samples \cup TinyF64 :
    Call("FromFloat64", 0, 0, NoF32, d, "ModeIEEE", "ModeIEEEArithmetic",
         "RoundNearestEven", 0, Ret(FromFloat64(d), "nil"), NoF32)

\* Add: AddWithMode under the package defaults, the error dropped
Add(u, v) ==
  LET r == AddWithMode(u, v, DefaultArithmeticMode, DefaultRounding)
  IN IF r.err = "panic" THEN r ELSE Ret(r.v, "nil")

\* Add(u, v)
CallAdd(halves) ==
  Idle /\ \E u \in halves, v \in halves :
    Call("Add", u, v, NoF32, NoF64, "ModeIEEE", DefaultArithmeticMode,
         DefaultRounding, 0, Add(u, v), NoF32)

\* Sub: SubWithMode under the package defaults, the error dropped
Sub(u, v) ==
  LET r == SubWithMode(u, v, DefaultArithmeticMode, DefaultRounding)
  IN IF r.err = "panic" THEN r ELSE Ret(r.v, "nil")

\* Sub(u, v)
CallSub(halves) ==
  Idle /\ \E u \in halves, v \in halves :
    Call("Sub", u, v, NoF32, NoF64, "ModeIEEE", DefaultArithmeticMode,
         DefaultRounding, 0, Sub(u, v), NoF32)

\* Mul: MulWithMode under the package defaults, the error dropped
Mul(u, v) ==
  LET r == MulWithMode(u, v, DefaultArithmeticMode, DefaultRounding)
  IN IF r.err = "panic" THEN r ELSE Ret(r.v, "nil")

\* Mul(u, v)
CallMul(halves) ==
  Idle /\ \E u \in halves, v \in halves :
    Call("Mul", u, v, NoF32, NoF64, "ModeIEEE", DefaultArithmeticMode,
         DefaultRounding, 0, Mul(u, v), NoF32)

\* Div: DivWithMode under the package defaults, the error dropped
Div(u, v, ns) ==
  LET r == DivWithMode(u, v, DefaultArithmeticMode, DefaultRounding, ns)
  IN IF r.err = "panic" THEN r ELSE Ret(r.v, "nil")

\* Div(u, v); ns is the sign the hardware gives the NaN of 0/0
CallDiv(halves) ==
  Idle /\ \E u \in halves, v \in halves, ns \in {0, 1} :
    Call("Div", u, v, NoF32, NoF64, "ModeIEEE", DefaultArithmeticMode,
         DefaultRounding, ns, Div(u, v, ns), NoF32)

\* AddWithMode(u, v, am, r)
CallAddWithMode ==
  Idle /\ \E u \in HalfSamples, v \in HalfSamples, am \in ArithmeticModes, r \in RoundingModes :
    Call("AddWithMode", u, v, NoF32, NoF64, "ModeIEEE", am, r, 0,
         AddWithMode(u, v, am, r), NoF32)

\* SubWithMode(u, v, am, r)
CallSubWithMode ==
  Idle /\ \E u \in HalfSamples, v \in HalfSamples, am \in ArithmeticModes, r \in RoundingModes :
    Call("SubWithMode", u, v, NoF32, NoF64, "ModeIEEE", am, r, 0,
         SubWithMode(u, v, am, r), NoF32)

\* MulWithMode(u, v, am, r)
CallMulWithMode ==
  Idle /\ \E u \in HalfSamples, v \in HalfSamples, am \in ArithmeticModes, r \in RoundingModes :
    Call("MulWithMode", u, v, NoF32, NoF64, "ModeIEEE", am, r, 0,
         MulWithMode(u, v, am, r), NoF32)

\* DivWithMode(u, v, am, r); ns is the sign the hardware gives the NaN of 0/0
CallDivWithMode ==
  Idle /\ \E u \in HalfSamples, v \in HalfSamples, am \in ArithmeticModes, r \in RoundingModes,
     ns \in {0, 1} :
    Call("DivWithMode", u, v, NoF32, NoF64, "ModeIEEE", am, r, ns,
         DivWithMode(u, v, am, r, ns), NoF32)

\* v.Class()
CallClass ==
  Idle /\ \E v \in AllHalf :
    Call("Class", v, 0, NoF32, NoF64, "ModeIEEE", "ModeIEEEArithmetic",
         "RoundNearestEven", 0, Ret(Class(v), "nil"), NoF32)

\* Equal(u, v)
CallEqual ==
  Idle /\ \E u \in HalfSamples, v \in HalfSamples : CallBool("Equal", u, v, Equal(u, v))

\* Less(u, v)
CallLess ==
  Idle /\ \E u \in HalfSamples, v \in HalfSamples : CallBool("Less", u, v, Less(u, v))

\* Greater(u, v)
CallGreater ==
  Idle /\ \E u \in HalfSamples, v \in HalfSamples : CallBool("Greater", u, v, Greater(u, v))

\* LessEqual(u, v)
CallLessEqual ==
  Idle /\ \E u \in HalfSamples, v \in HalfSamples :
    CallBool("LessEqual", u, v, LessEqual(u, v))

\* GreaterEqual(u, v)
CallGreaterEqual ==
  Idle /\ \E u \in HalfSamples, v \in HalfSamples :
    CallBool("GreaterEqual", u, v, GreaterEqual(u, v))

\* Min(u, v)
CallMin ==
  Idle /\ \E u \in HalfSamples, v \in HalfSamples :
    Call("Min", u, v, NoF32, NoF64, "ModeIEEE", "ModeIEEEArithmetic",
         "RoundNearestEven", 0, Ret(Min(u, v), "nil"), NoF32)

\* Max(u, v)
CallMax ==
  Idle /\ \E u \in HalfSamples, v \in HalfSamples :
    Call("Max", u, v, NoF32, NoF64, "ModeIEEE", "ModeIEEEArithmetic",
         "RoundNearestEven", 0, Ret(Max(u, v), "nil"), NoF32)

\* NextAfter(u, v)
CallNextAfter ==
  Idle /\ \E u \in HalfSamples, v \in HalfSamples :
    Call("NextAfter", u, v, NoF32, NoF64, "ModeIEEE", "ModeIEEEArithmetic",
         "RoundNearestEven", 0, Ret(NextAfter(u, v), "nil"), NoF32)

\* ToSlice16WithMode(xs, cm, r)
CallToSlice16WithMode ==
  Idle /\ \E xs \in BatchSamples, cm \in ConversionModes, r \in RoundingModes :
    CallBatch("ToSlice16WithMode", xs, cm, r, ToSlice16WithMode(xs, cm, r))

\* Configure(cfg), cfg the caller's object at address p: the package keeps
\* the pointer and copies the three mode fields into the package variables
CallConfigure ==
  Idle /\ \E p \in CallerAddrs :
    /\ config' = p
    /\ DefaultConversionMode' = heap[p].DefaultConversionMode
    /\ DefaultRoundingMode' = heap[p].DefaultRoundingMode
    /\ DefaultArithmeticMode' = heap[p].DefaultArithmeticMode
    /\ applied' = heap[p]
    /\ op' = "Configure"
    /\ UNCHANGED <<DefaultRounding, heap, got>>
    /\ UNCHANGED <<a, b, x, y, cmode, amode, rnd, nanSign, out, wide, flag, batch, slices>>
    /\ UNCHANGED procVars

\* the Config GetConfig builds: the fields of the object config points to
GetConfig == heap[config]

\* GetConfig(): the copy is a new object of the caller's, at an address q
\* the package does not hold
CallGetConfig ==
  Idle /\ \E q \in CallerAddrs \ {config} :
    /\ heap' = [heap EXCEPT ![q] = GetConfig]
    /\ got' = q
    /\ op' = "GetConfig"
    /\ UNCHANGED <<config, applied>>
    /\ UNCHANGED modeVars
    /\ UNCHANGED <<a, b, x, y, cmode, amode, rnd, nanSign, out, wide, flag, batch, slices>>
    /\ UNCHANGED procVars

\* the objects a GetConfig in progress is building, not yet returned
Unreturned == {parg[r] : r \in {t \in Procs : pc[t][1] = "GetConfig"}}

\* the caller assigns the fields of a Config object it holds
WriteConfig ==
  Idle /\ \E p \in CallerAddrs \ Unreturned, v \in ConfigValues :
    /\ heap[p] # v
    /\ heap' = [heap EXCEPT ![p] = v]
    /\ UNCHANGED <<config, got, applied>>
    /\ UNCHANGED modeVars
    /\ UNCHANGED callVars
    /\ UNCHANGED procVars

\* ------------------------------------------------------------------------
\* Goroutines: the same functions, one access of a package variable per step
\* ------------------------------------------------------------------------
\* goroutine p moves to the next step
Goto(p, fn, step) == pc' = [pc EXCEPT ![p] = At(fn, step)]

\* a goroutine calls Configure with one of the caller's objects
BeginConfigure ==
  \E p \in Procs, q \in CallerAddrs \ Unreturned :
    /\ pc[p] = NotCalling
    /\ parg' = [parg EXCEPT ![p] = q]
    /\ Goto(p, "Configure", "Lock")
    /\ UNCHANGED <<configMutex>>
    /\ UNCHANGED <<modeVars, heapVars, callVars>>

\* configMutex.Lock()
ConfigureLock ==
  \E p \in Procs :
    /\ pc[p] = At("Configure", "Lock")
    /\ configMutex = Unlocked
    /\ configMutex' = [writer |-> p, readers |-> {}]
    /\ Goto(p, "Configure", "config")
    /\ UNCHANGED <<parg>>
    /\ UNCHANGED <<modeVars, heapVars, callVars>>

\* config = cfg
StoreConfig ==
  \E p \in Procs :
    /\ pc[p] = At("Configure", "config")
    /\ config' = parg[p]
    /\ applied' = heap[parg[p]]
    /\ Goto(p, "Configure", "DefaultConversionMode")
    /\ UNCHANGED <<heap, got, configMutex, parg>>
    /\ UNCHANGED <<modeVars, callVars>>

\* DefaultConversionMode = cfg.DefaultConversionMode
StoreConversionMode ==
  \E p \in Procs :
    /\ pc[p] = At("Configure", "DefaultConversionMode")
    /\ DefaultConversionMode' = heap[parg[p]].DefaultConversionMode
    /\ Goto(p, "Configure", "DefaultRoundingMode")
    /\ UNCHANGED <<DefaultRoundingMode, DefaultArithmeticMode, DefaultRounding>>
    /\ UNCHANGED <<configMutex, parg>>
    /\ UNCHANGED <<heapVars, callVars>>

\* DefaultRoundingMode = cfg.DefaultRoundingMode
StoreRoundingMode ==
  \E p \in Procs :
    /\ pc[p] = At("Configure", "DefaultRoundingMode")
    /\ DefaultRoundingMode' = heap[parg[p]].DefaultRoundingMode
    /\ Goto(p, "Configure", "DefaultArithmeticMode")
    /\ UNCHANGED <<DefaultConversionMode, DefaultArithmeticMode, DefaultRounding>>
    /\ UNCHANGED <<configMutex, parg>>
    /\ UNCHANGED <<heapVars, callVars>>

\* DefaultArithmeticMode = cfg.DefaultArithmeticMode
StoreArithmeticMode ==
  \E p \in Procs :
    /\ pc[p] = At("Configure", "DefaultArithmeticMode")
    /\ DefaultArithmeticMode' = heap[parg[p]].DefaultArithmeticMode
    /\ Goto(p, "Configure", "Unlock")
    /\ UNCHANGED <<DefaultConversionMode, DefaultRoundingMode, DefaultRounding>>
    /\ UNCHANGED <<configMutex, parg>>
    /\ UNCHANGED <<heapVars, callVars>>

\* the deferred configMutex.Unlock()
ConfigureUnlock ==
  \E p \in Procs :
    /\ pc[p] = At("Configure", "Unlock")
    /\ configMutex' = Unlocked
    /\ pc' = [pc EXCEPT ![p] = NotCalling]
    /\ UNCHANGED <<parg>>
    /\ UNCHANGED <<modeVars, heapVars, callVars>>

\* the objects the package or a goroutine inside a call refers to
Referenced == {config} \cup {parg[r] : r \in {t \in Procs : pc[t] # NotCalling}}

\* a goroutine calls GetConfig; the copy will be a new object, at an
\* address q nothing refers to
BeginGetConfig ==
  \E p \in Procs, q \in CallerAddrs \ Referenced :
    /\ pc[p] = NotCalling
    /\ parg' = [parg EXCEPT ![p] = q]
    /\ Goto(p, "GetConfig", "RLock")
    /\ UNCHANGED <<configMutex>>
    /\ UNCHANGED <<modeVars, heapVars, callVars>>

\* configMutex.RLock()
GetConfigRLock ==
  \E p \in Procs :
    /\ pc[p] = At("GetConfig", "RLock")
    /\ configMutex.writer = 0
    /\ configMutex' = [configMutex EXCEPT !.readers = @ \cup {p}]
    /\ Goto(p, "GetConfig", "DefaultConversionMode")
    /\ UNCHANGED <<parg>>
    /\ UNCHANGED <<modeVars, heapVars, callVars>>

\* the field of the copy evaluated after field
FieldAfter(field) ==
  CASE field = "DefaultConversionMode" -> "DefaultRoundingMode"
    [] field = "DefaultRoundingMode" -> "DefaultArithmeticMode"
    [] field = "DefaultArithmeticMode" -> "EnableFastMath"
    [] OTHER -> "RUnlock"

\* one field of the copy: config.<field>
LoadConfigField ==
  \E p \in Procs :
    /\ pc[p][1] = "GetConfig"
    /\ pc[p][2] \notin {"RLock", "RUnlock"}
    /\ heap' = [heap EXCEPT ![parg[p]][pc[p][2]] = heap[config][pc[p][2]]]
    /\ Goto(p, "GetConfig", FieldAfter(pc[p][2]))
    /\ UNCHANGED <<config, got, applied, configMutex, parg>>
    /\ UNCHANGED <<modeVars, callVars>>

\* the deferred configMutex.RUnlock(); the caller receives the copy
GetConfigRUnlock ==
  \E p \in Procs :
    /\ pc[p] = At("GetConfig", "RUnlock")
    /\ configMutex' = [configMutex EXCEPT !.readers = @ \ {p}]
    /\ got' = parg[p]
    /\ pc' = [pc EXCEPT ![p] = NotCalling]
    /\ UNCHANGED <<config, heap, applied, parg>>
    /\ UNCHANGED <<modeVars, callVars>>

\* a goroutine calls Add, Sub, Mul or Div
BeginOperator ==
  \E p \in Procs, o \in Operators :
    /\ pc[p] = NotCalling
    /\ Goto(p, o, "DefaultArithmeticMode")
    /\ UNCHANGED <<configMutex, parg>>
    /\ UNCHANGED <<modeVars, heapVars, callVars>>

\* the operator evaluates its argument DefaultArithmeticMode
LoadArithmeticMode ==
  \E p \in Procs :
    /\ pc[p][1] \in Operators
    /\ pc[p][2] = "DefaultArithmeticMode"
    /\ Goto(p, pc[p][1], "DefaultRounding")
    /\ UNCHANGED <<configMutex, parg>>
    /\ UNCHANGED <<modeVars, heapVars, callVars>>

\* the operator evaluates its argument DefaultRounding and calls the
\* WithMode function, which touches no package variable
LoadRounding ==
  \E p \in Procs :
    /\ pc[p][1] \in Operators
    /\ pc[p][2] = "DefaultRounding"
    /\ pc' = [pc EXCEPT ![p] = NotCalling]
    /\ UNCHANGED <<configMutex, parg>>
    /\ UNCHANGED <<modeVars, heapVars, callVars>>

\* the caller has consumed the result; the next call can be made
Return ==
  /\ op # "none"
  /\ op' = "none"
  /\ a' = 0
  /\ b' = 0
  /\ x' = NoF32
  /\ y' = NoF64
  /\ cmode' = "ModeIEEE"
  /\ amode' = "ModeIEEEArithmetic"
  /\ rnd' = "RoundNearestEven"
  /\ nanSign' = 0
  /\ out' = Ret(0, "nil")
  /\ wide' = NoF32
  /\ flag' = FALSE
  /\ batch' = <<>>
  /\ slices' = NoSlices
  /\ UNCHANGED cfgVars

NextWiden == CallToFloat32(AllHalf) \/ Return
NextClassify == CallClass \/ Return
NextBatch == CallToSlice16WithMode \/ Return
NextConfig ==
  \/ CallConfigure \/ CallGetConfig \/ WriteConfig
  \/ CallAdd(ConfigOperands) \/ CallSub(ConfigOperands)
  \/ CallMul(ConfigOperands) \/ CallDiv(ConfigOperands)
  \/ Return
NextRace ==
  \/ BeginConfigure \/ ConfigureLock \/ StoreConfig \/ StoreConversionMode
  \/ StoreRoundingMode \/ StoreArithmeticMode \/ ConfigureUnlock
  \/ BeginGetConfig \/ GetConfigRLock \/ LoadConfigField \/ GetConfigRUnlock
  \/ BeginOperator \/ LoadArithmeticMode \/ LoadRounding
NextDefaults == CallConfigure \/ WriteConfig \/ CallToFloat16 \/ Return
NextCompare ==
  \/ CallEqual \/ CallLess \/ CallGreater \/ CallLessEqual \/ CallGreaterEqual
  \/ CallMin \/ CallMax \/ CallNextAfter
  \/ Return
NextNarrow ==
  CallToFloat16 \/ CallToFloat16WithMode \/ CallFromFloat64WithMode \/ Return
NextConvert ==
  \/ CallToFloat16 \/ CallToFloat16WithMode \/ CallFromFloat64WithMode
  \/ CallFromFloat32 \/ CallFromFloat64
  \/ Return
NextArith ==
  \/ CallAdd(HalfSamples)
  \/ CallAddWithMode \/ CallSubWithMode \/ CallMulWithMode \/ CallDivWithMode
  \/ Return

Next ==
  \/ Return
  \/ CallToFloat32(HalfSamples)
  \/ CallToFloat16
  \/ CallToFloat16WithMode
  \/ CallFromFloat64WithMode
  \/ CallFromFloat32 \/ CallFromFloat64
  \/ CallAdd(HalfSamples)
  \/ CallSub(HalfSamples) \/ CallMul(HalfSamples) \/ CallDiv(HalfSamples)
  \/ CallConfigure \/ CallGetConfig \/ WriteConfig
  \/ CallAddWithMode
  \/ CallSubWithMode
  \/ CallMulWithMode
  \/ CallDivWithMode
  \/ CallClass
  \/ CallEqual \/ CallLess \/ CallGreater \/ CallLessEqual \/ CallGreaterEqual
  \/ CallMin \/ CallMax \/ CallNextAfter
  \/ CallToSlice16WithMode

Spec == Init /\ [][Next]_vars
SpecWiden == Init /\ [][NextWiden]_vars
SpecNarrow == Init /\ [][NextNarrow]_vars
SpecConvert == Init /\ [][NextConvert]_vars
SpecArith == Init /\ [][NextArith]_vars
SpecClassify == Init /\ [][NextClassify]_vars
SpecBatch == Init /\ [][NextBatch]_vars
SpecConfig == Init /\ [][NextConfig]_vars
SpecRace == Init /\ [][NextRace]_vars
SpecDefaults == Init /\ [][NextDefaults]_vars
SpecCompare == Init /\ [][NextCompare]_vars

\* ------------------------------------------------------------------------
\* Reference semantics of the format, used to state the properties
\* ------------------------------------------------------------------------
\* a finite half value is HalfSig * 2^HalfUnit, negated when the sign bit is set
HalfSig(h) == IF (h % 32768) \div 1024 = 0 THEN h % 1024 ELSE 1024 + (h % 1024)
HalfUnit(h) == IF (h % 32768) \div 1024 = 0 THEN -24 ELSE ((h % 32768) \div 1024) - 25
HalfSign(h) == h \div 32768

\* the half pattern that the real number (-1)^s * (n + fraction) * 2^unitExp,
\* n > 0, rounds to under a rounding mode; sticky = 1 says that a nonzero
\* fraction below the unit of n was left out (n then has at least 13 bits)
RefRound(s, n, sticky, unitExp, mode) ==
  LET len == Len32(n)
      e == unitExp + len - 1
      ulp == IF e >= -14 THEN e - 10 ELSE -24
      drop == ulp - unitExp
      kept == IF drop <= 0 THEN n * Pow2(-drop)
              ELSE IF drop > len THEN 0 ELSE n \div Pow2(drop)
      rem == IF drop <= 0 THEN 0 ELSE IF drop > len THEN n ELSE n % Pow2(drop)
      above == drop > 0 /\ drop <= len
               /\ (rem > Pow2(drop - 1) \/ (rem = Pow2(drop - 1) /\ sticky = 1))
      tie == drop > 0 /\ drop <= len /\ rem = Pow2(drop - 1) /\ sticky = 0
      inexact == rem # 0 \/ sticky = 1
      away == CASE mode = "RoundNearestEven" -> above \/ (tie /\ kept % 2 = 1)
                [] mode = "RoundNearestAway" -> above \/ tie
                [] mode = "RoundTowardZero" -> FALSE
                [] mode = "RoundTowardPositive" -> inexact /\ s = 0
                [] mode = "RoundTowardNegative" -> inexact /\ s = 1
      base == IF e >= -14 THEN ((e + 14) * 1024) + kept ELSE kept
      huge == CASE mode = "RoundNearestEven" -> 31744
                [] mode = "RoundNearestAway" -> 31744
                [] mode = "RoundTowardZero" -> 31743
                [] mode = "RoundTowardPositive" -> IF s = 0 THEN 31744 ELSE 31743
                [] mode = "RoundTowardNegative" -> IF s = 1 THEN 31744 ELSE 31743
  IN IF e > 15 THEN (s * 32768) + huge
     ELSE (s * 32768) + base + (IF away THEN 1 ELSE 0)

\* the 24-bit significand and the unit exponent of a finite nonzero float32
F32Sig(f) == IF f.e = 0 THEN f.m ELSE 8388608 + f.m
F32Unit(f) == IF f.e = 0 THEN -149 ELSE f.e - 150
F32Finite(f) == f.e # 255
\* the half a finite nonzero float32 rounds to
RefNarrow(f, mode) == RefRound(f.s, F32Sig(f), 0, F32Unit(f), mode)

\* the exact product of two finite nonzero halves, rounded once
RefMul(u, v, mode) ==
  RefRound((HalfSign(u) + HalfSign(v)) % 2, HalfSig(u) * HalfSig(v), 0,
           HalfUnit(u) + HalfUnit(v), mode)

\* the exact quotient of two finite nonzero halves, rounded once
RefDiv(u, v, mode) ==
  LET lu == Len32(HalfSig(u))
      lv == Len32(HalfSig(v))
      \* both significands scaled into [2^10, 2^11)
      nu == HalfSig(u) * Pow2(11 - lu)
      nv == HalfSig(v) * Pow2(11 - lv)
      q == (nu * 8192) \div nv
      r == (nu * 8192) % nv
  IN RefRound((HalfSign(u) + HalfSign(v)) % 2, q, IF r # 0 THEN 1 ELSE 0,
              ((HalfUnit(u) - (11 - lu)) - (HalfUnit(v) - (11 - lv))) - 13, mode)

\* the exact sum of two finite nonzero halves, rounded once
RefAdd(u, v, mode) ==
  LET uBig == HalfUnit(u) > HalfUnit(v)
              \/ (HalfUnit(u) = HalfUnit(v) /\ HalfSig(u) >= HalfSig(v))
      big == IF uBig THEN u ELSE v
      small == IF uBig THEN v ELSE u
      d == HalfUnit(big) - HalfUnit(small)
      up == IF d > 19 THEN 19 ELSE d
      down == d - up
      bigN == HalfSig(big) * Pow2(up)
      smallN == HalfSig(small) \div Pow2(down)
      lost == IF HalfSig(small) % Pow2(down) # 0 THEN 1 ELSE 0
      unit == HalfUnit(small) + down
  IN IF HalfSign(big) = HalfSign(small)
     THEN RefRound(HalfSign(big), bigN + smallN, lost, unit, mode)
     ELSE IF bigN = smallN /\ lost = 0
     THEN (IF mode = "RoundTowardNegative" THEN NegativeZero ELSE PositiveZero)
     ELSE RefRound(HalfSign(big), (bigN - smallN) - lost, lost, unit, mode)

FiniteNonzero(h) == IsFinite(h) /\ ~IsZero(h)

ArithOps == {"AddWithMode", "SubWithMode", "MulWithMode", "DivWithMode"}
NonExactModes == {"ModeIEEEArithmetic", "ModeFastArithmetic"}

\* ------------------------------------------------------------------------
\* Properties
\* ------------------------------------------------------------------------
\* C1: round trip. For every half pattern v that is not a NaN, narrowing
\* ToFloat32(v) gives back exactly v, through ToFloat16WithMode(., ModeIEEE,
\* RoundNearestEven) and through ToFloat16.
C1_RoundTrip ==
  (op = "ToFloat32" /\ ~IsNaN(a)) =>
    /\ ToFloat16WithMode(wide, "ModeIEEE", "RoundNearestEven") = Ret(a, "nil")
    /\ ToFloat16(wide) = a

\* C2: IEEE and Fast arithmetic never fail. For every pair of operands and
\* every rounding mode, the four operators return a nil error in
\* ModeIEEEArithmetic and in ModeFastArithmetic.
C2_NeverFail ==
  (op \in ArithOps /\ amode \in NonExactModes) => out.err = "nil"

\* C3: for finite nonzero a and b, MulWithMode and DivWithMode in
\* ModeIEEEArithmetic with RoundNearestEven return the exact product or
\* quotient rounded once to nearest-even, with a nil error.
C3_MulDivCorrectlyRounded ==
  (/\ op \in {"MulWithMode", "DivWithMode"}
   /\ amode = "ModeIEEEArithmetic"
   /\ rnd = "RoundNearestEven"
   /\ FiniteNonzero(a)
   /\ FiniteNonzero(b)) =>
    out = Ret(IF op = "MulWithMode" THEN RefMul(a, b, rnd) ELSE RefDiv(a, b, rnd), "nil")

\* C4: for finite nonzero a and b, AddWithMode in ModeIEEEArithmetic returns
\* the exact sum rounded to half precision under the requested rounding mode;
\* the bits shifted out while aligning take part in the rounding.
C4_AddCorrectlyRounded ==
  (/\ op = "AddWithMode"
   /\ amode = "ModeIEEEArithmetic"
   /\ FiniteNonzero(a)
   /\ FiniteNonzero(b)) =>
    out = Ret(RefAdd(a, b, rnd), "nil")

\* a finite float32 at or above the smallest half subnormal 2^-24 whose
\* rebiased exponent is <= 0
InSubnormalRange(f) == f.e >= 103 /\ f.e <= 112

\* C5: subnormal production. For every float32 in the subnormal range of the
\* half format, ToFloat16WithMode returns the correctly rounded subnormal (or
\* the smallest normal when rounding carries) with a nil error, in every
\* conversion mode.
C5_SubnormalProduced ==
  (op = "ToFloat16WithMode" /\ InSubnormalRange(x)) =>
    out = Ret(RefNarrow(x, rnd), "nil")

\* the float32 holding exactly the value of a finite half pattern
ExactWiden(v) ==
  LET sign == HalfSign(v)
      exp == (v % 32768) \div 1024
      mant == v % 1024
      shift == 11 - Len32(mant)
  IN IF mant = 0 /\ exp = 0 THEN F32(sign, 0, 0)
     ELSE IF exp = 0
     THEN F32(sign, 127 - 15 + 1 - shift, ((mant * Pow2(shift)) % 1024) * 8192)
     ELSE F32(sign, exp + 112, mant * 8192)

\* C6: widening is exact. For every finite half pattern v, ToFloat32(v) is the
\* float32 with the value of v and the same sign.
C6_WideningExact ==
  (op = "ToFloat32" /\ IsFinite(a)) => wide = ExactWiden(a)

\* the number of low significand bits a float32 loses when narrowed
HalfDrop(f) ==
  LET e == F32Unit(f) + Len32(F32Sig(f)) - 1
      ulp == IF e >= -14 THEN e - 10 ELSE -24
  IN ulp - F32Unit(f)

\* a finite float32 exactly halfway between two adjacent half values (for the
\* largest exponent: between the largest finite value and 2^16)
IsTie(f) ==
  /\ F32Finite(f)
  /\ F32Sig(f) # 0
  /\ F32Unit(f) + Len32(F32Sig(f)) - 1 <= 15
  /\ HalfDrop(f) >= 1
  /\ HalfDrop(f) <= 30
  /\ F32Sig(f) % Pow2(HalfDrop(f)) = Pow2(HalfDrop(f) - 1)

\* C7: tie-to-even. A float32 exactly halfway between two adjacent half values
\* narrows, in ModeIEEE with RoundNearestEven, to the neighbour with an even
\* mantissa (the infinity only above the largest finite value).
C7_TieToEven ==
  (/\ op = "ToFloat16WithMode"
   /\ cmode = "ModeIEEE"
   /\ rnd = "RoundNearestEven"
   /\ IsTie(x)) =>
    /\ out = Ret(RefNarrow(x, rnd), "nil")
    /\ out.v % 2 = 0

\* a float32 inside the normal range of the half format
InNormalRange(f) == f.e >= 113 /\ f.e <= 142

\* C8: directed rounding respects the sign. For every float32 in the half
\* normal range, ToFloat16WithMode in ModeIEEE returns the smallest half >= x
\* under RoundTowardPositive and the largest half <= x under
\* RoundTowardNegative, for positive and negative x.
C8_DirectedRounding ==
  (/\ op = "ToFloat16WithMode"
   /\ cmode = "ModeIEEE"
   /\ rnd \in {"RoundTowardPositive", "RoundTowardNegative"}
   /\ InNormalRange(x)) =>
    out = Ret(RefNarrow(x, rnd), "nil")

\* the rebiased exponent of a finite float32 is >= 31, or becomes 31 by the
\* carry of the function's rounding step
Overflows32(f, r) ==
  /\ F32Finite(f)
  /\ \/ f.e - 112 >= 31
     \/ (f.e - 112 = 30 /\ f.m \div 8192 = 1023 /\ shouldRound(f.m, 13, r))

\* the same for a finite float64
Overflows64(d, r) ==
  /\ d.e # 2047
  /\ \/ d.e - 1008 >= 31
     \/ /\ d.e - 1008 = 30
        /\ d.hi \div 65536 = 1023
        /\ roundUp64(r, d.s, Bit(d.hi, 15), Bit(d.hi, 14),
                     IF d.hi % 16384 # 0 \/ d.lo # 0 THEN 1 ELSE 0, 1023)

\* what an overflowing narrowing has to return in a conversion mode
OverflowResult(sign, cm) ==
  IF cm \in {"ModeStrict", "ModeExact"} THEN Ret(0, "ErrOverflow")
  ELSE Ret(SignedInf(sign), "nil")

\* C9: narrowing overflow. For every finite input that overflows,
\* ToFloat16WithMode and FromFloat64WithMode return value 0 with ErrOverflow
\* in ModeStrict and ModeExact, and the signed infinity with a nil error in
\* ModeIEEE and ModeFast.
C9_NarrowingOverflow ==
  /\ (op = "ToFloat16WithMode" /\ Overflows32(x, rnd)) =>
       out = OverflowResult(x.s, cmode)
  /\ (op = "FromFloat64WithMode" /\ Overflows64(y, rnd)) =>
       out = OverflowResult(y.s, cmode)

\* C10: NaN operands. When at least one operand is a NaN, the four operators
\* return a NaN with a nil error in ModeIEEEArithmetic and ModeFastArithmetic,
\* and value 0 with ErrNaN in ModeExactArithmetic.
C10_NaNOperand ==
  (op \in ArithOps /\ (IsNaN(a) \/ IsNaN(b))) =>
    IF amode = "ModeExactArithmetic" THEN out = Ret(0, "ErrNaN")
    ELSE IsNaN(out.v) /\ out.err = "nil"

\* ------------------------------------------------------------------------
\* Special-value rules of the arithmetic operators
\* ------------------------------------------------------------------------
\* the classes of a pattern, read off the format table
PatZero(h) == h % 32768 = 0
PatInf(h) == h % 32768 = 31744
PatNaN(h) == h % 32768 > 31744
PatNeg(h) == h >= 32768
PatFiniteNonzero(h) == h % 32768 > 0 /\ h % 32768 < 31744
PatFlip(h) == (h + 32768) % 65536

\* the recorded call is one of the indeterminate forms
Indeterminate ==
  \/ op = "AddWithMode" /\ PatInf(a) /\ PatInf(b) /\ PatNeg(a) # PatNeg(b)
  \/ op = "SubWithMode" /\ PatInf(a) /\ PatInf(b) /\ PatNeg(a) = PatNeg(b)
  \/ op = "MulWithMode" /\ ((PatZero(a) /\ PatInf(b)) \/ (PatInf(a) /\ PatZero(b)))
  \/ op = "DivWithMode" /\ ((PatZero(a) /\ PatZero(b)) \/ (PatInf(a) /\ PatInf(b)))

\* C11: inf + (-inf), inf - inf, 0 * inf, 0 / 0 and inf / inf return QuietNaN
\* with a nil error in ModeIEEEArithmetic and ModeFastArithmetic, and value 0
\* with ErrInvalidOperation in ModeExactArithmetic.
C11_IndeterminateForms ==
  Indeterminate =>
    out = IF amode = "ModeExactArithmetic" THEN Ret(0, "ErrInvalidOperation")
          ELSE Ret(32256, "nil")

C11_Witness ==
  /\ op = "MulWithMode" /\ PatZero(a) /\ PatInf(b)
  /\ amode = "ModeExactArithmetic" /\ out = Ret(0, "ErrInvalidOperation")

\* C12: a finite nonzero value divided by either zero gives the infinity
\* whose sign is the XOR of the operands' signs with a nil error in
\* ModeIEEEArithmetic and ModeFastArithmetic, and value 0 with
\* ErrDivisionByZero in ModeExactArithmetic.
C12_DivisionByZero ==
  (op = "DivWithMode" /\ PatFiniteNonzero(a) /\ PatZero(b)) =>
    out = IF amode = "ModeExactArithmetic" THEN Ret(0, "ErrDivisionByZero")
          ELSE Ret(IF PatNeg(a) # PatNeg(b) THEN 64512 ELSE 31744, "nil")

C12_Witness ==
  /\ op = "DivWithMode" /\ a = 15360 /\ b = 32768
  /\ amode = "ModeIEEEArithmetic" /\ out = Ret(64512, "nil")

\* the correctly rounded result of the recorded call on finite nonzero operands
RefResult(mode) ==
  CASE op = "AddWithMode" -> RefAdd(a, b, mode)
    [] op = "SubWithMode" -> RefAdd(a, PatFlip(b), mode)
    [] op = "MulWithMode" -> RefMul(a, b, mode)
    [] OTHER -> RefDiv(a, b, mode)

\* the exact result is larger in magnitude than the largest finite half:
\* rounding away from zero reaches an infinity
ExceedsMaxValue ==
  PatInf(RefResult("RoundTowardPositive")) \/ PatInf(RefResult("RoundTowardNegative"))

\* C13: in ModeExactArithmetic an operation on finite operands whose result
\* exceeds the largest finite half magnitude returns ErrOverflow.
C13_ExactOverflow ==
  (op \in ArithOps /\ amode = "ModeExactArithmetic"
   /\ PatFiniteNonzero(a) /\ PatFiniteNonzero(b) /\ ExceedsMaxValue) =>
    out.err = "ErrOverflow"

\* C14: in ModeIEEEArithmetic, addition of non-NaN operands gives the same
\* pattern and the same error outcome with the operands exchanged.
C14_AddCommutative ==
  (op = "AddWithMode" /\ amode = "ModeIEEEArithmetic" /\ ~PatNaN(a) /\ ~PatNaN(b)) =>
    out = AddWithMode(b, a, amode, rnd)

\* C15: Add(x, PositiveZero) returns exactly the pattern x for every finite
\* x, both zeros included.
C15_AdditiveIdentity ==
  (op = "Add" /\ b = 0 /\ a % 32768 < 31744) => out = Ret(a, "nil")

\* C15, amended: Add(x, PositiveZero) returns exactly the pattern x for every
\* finite x other than negative zero, and PositiveZero for negative zero.
C15_AdditiveIdentityAmended ==
  (op = "Add" /\ b = 0 /\ a % 32768 < 31744) =>
    out = Ret(IF a = 32768 THEN 0 ELSE a, "nil")

C15_Witness ==
  op = "Add" /\ b = 0 /\ a % 32768 > 0 /\ a % 32768 < 1024 /\ out = Ret(a, "nil")

\* C16: for nonzero finite operands, whenever MulWithMode returns no error
\* the sign bit of the product is the XOR of the operands' sign bits, also
\* when the product underflows to zero or overflows to infinity.
C16_MulSignRule ==
  (op = "MulWithMode" /\ PatFiniteNonzero(a) /\ PatFiniteNonzero(b) /\ out.err = "nil") =>
    PatNeg(out.v) = (PatNeg(a) # PatNeg(b))

C16_Witness ==
  /\ op = "MulWithMode" /\ PatFiniteNonzero(a) /\ PatFiniteNonzero(b)
  /\ PatNeg(a) /\ ~PatNeg(b) /\ out = Ret(32768, "nil")

\* ------------------------------------------------------------------------
\* Classification, comparison and neighbours
\* ------------------------------------------------------------------------
\* the class the format table gives a pattern: sign bit, exponent field
\* 0, 1..30 or 31, mantissa zero or not, NaN quiet iff mantissa bit 9 is set
TableClass(h) ==
  LET s == h \div 32768
      e == (h % 32768) \div 1024
      m == h % 1024
  IN IF e = 31 /\ m # 0 THEN (IF m >= 512 THEN 1 ELSE 0)
     ELSE IF e = 31 THEN (IF s = 1 THEN 2 ELSE 9)
     ELSE IF e = 0 /\ m = 0 THEN (IF s = 1 THEN 5 ELSE 6)
     ELSE IF e = 0 THEN (IF s = 1 THEN 4 ELSE 7)
     ELSE (IF s = 1 THEN 3 ELSE 8)

\* C17: Class(v) is the class of the format table for every pattern v, and
\* the predicates agree with it: exactly one of IsZero, IsSubnormal,
\* IsNormal, IsInf(0), IsNaN is true, IsFinite is true exactly for zero,
\* subnormal and normal, IsInf(+1)/IsInf(-1) select the infinity of that sign.
C17_Classification ==
  op = "Class" =>
    LET c == TableClass(a) IN
    /\ out = Ret(c, "nil")
    /\ IsNaN(a) = (c \in {0, 1})
    /\ IsInf(a, 0) = (c \in {2, 9})
    /\ IsNormal(a) = (c \in {3, 8})
    /\ IsSubnormal(a) = (c \in {4, 7})
    /\ IsZero(a) = (c \in {5, 6})
    /\ IsFinite(a) = (c \in {3, 4, 5, 6, 7, 8})
    /\ IsInf(a, 1) = (c = 9)
    /\ IsInf(a, -1) = (c = 2)
    /\ Cardinality({p \in {<<1, IsZero(a)>>, <<2, IsSubnormal(a)>>, <<3, IsNormal(a)>>,
                           <<4, IsInf(a, 0)>>, <<5, IsNaN(a)>>} : p[2]}) = 1

C17_Witness == op = "Class" /\ a = 32000 /\ out = Ret(0, "nil")

\* the position of a non-NaN pattern in numeric order: magnitudes grow with
\* the low 15 bits, the sign bit mirrors them, both zeros share position 0
OrderKey(h) == IF h >= 32768 THEN -(h - 32768) ELSE h
ValueLess(u, v) == ~PatNaN(u) /\ ~PatNaN(v) /\ OrderKey(u) < OrderKey(v)
ValueEqual(u, v) == ~PatNaN(u) /\ ~PatNaN(v) /\ ((PatZero(u) /\ PatZero(v)) \/ u = v)

CompareOps == {"Equal", "Less", "Greater", "LessEqual", "GreaterEqual"}

\* C18: Less(a, b) is true exactly when neither is NaN and a is numerically
\* below b, Equal(a, b) exactly when neither is NaN and both are zeros or
\* the same pattern; for non-NaN a, b exactly one of Less, Equal, Greater
\* holds and LessEqual(a, b) is the negation of Less(b, a).
C18_ComparatorOrder ==
  op \in CompareOps =>
    /\ op = "Less" => flag = ValueLess(a, b)
    /\ op = "Equal" => flag = ValueEqual(a, b)
    /\ op = "Greater" => flag = ValueLess(b, a)
    /\ op = "LessEqual" => flag = (ValueLess(a, b) \/ ValueEqual(a, b))
    /\ op = "GreaterEqual" => flag = (ValueLess(b, a) \/ ValueEqual(a, b))
    /\ (~PatNaN(a) /\ ~PatNaN(b)) =>
         /\ Cardinality({p \in {<<1, Less(a, b)>>, <<2, Equal(a, b)>>,
                                <<3, Greater(a, b)>>} : p[2]}) = 1
         /\ LessEqual(a, b) = ~Less(b, a)

C18_Witness ==
  op = "Less" /\ a >= 32768 /\ b >= 32768 /\ a > b /\ ~PatNaN(a) /\ ~PatNaN(b) /\ flag

\* C19: Min and Max return the other operand when exactly one operand is a
\* NaN and a NaN only when both are; for non-NaN operands the result is one
\* of the operands, Min is LessEqual to both and Max GreaterEqual to both.
C19_MinMax ==
  op \in {"Min", "Max"} =>
    /\ out.err = "nil"
    /\ (PatNaN(a) /\ ~PatNaN(b)) => out.v = b
    /\ (~PatNaN(a) /\ PatNaN(b)) => out.v = a
    /\ PatNaN(out.v) = (PatNaN(a) /\ PatNaN(b))
    /\ (~PatNaN(a) /\ ~PatNaN(b)) =>
         /\ out.v \in {a, b}
         /\ op = "Min" => (LessEqual(out.v, a) /\ LessEqual(out.v, b))
         /\ op = "Max" => (GreaterEqual(out.v, a) /\ GreaterEqual(out.v, b))

C19_Witness ==
  op = "Min" /\ ~PatNaN(a) /\ ~PatNaN(b) /\ ValueLess(b, a) /\ out = Ret(b, "nil")

\* C20: for non-NaN f and g that are not Equal, NextAfter(f, g) is the value
\* adjacent to f on the side of g: strictly beyond f toward g with no
\* pattern strictly between (positions of adjacent values differ by one).
C20_NextAfterAdjacent ==
  (op = "NextAfter" /\ ~PatNaN(a) /\ ~PatNaN(b) /\ ~ValueEqual(a, b)) =>
    /\ out.err = "nil"
    /\ ~PatNaN(out.v)
    /\ ValueLess(a, b) => OrderKey(out.v) = OrderKey(a) + 1
    /\ ValueLess(b, a) => OrderKey(out.v) = OrderKey(a) - 1

\* ------------------------------------------------------------------------
\* Widening of NaNs
\* ------------------------------------------------------------------------
\* the half NaN patterns of both signs
HalfNaNs == (31745..32767) \cup (64513..65535)

\* C21: distinct half NaN patterns widen to distinct float32 patterns; a
\* widened NaN is a float32 NaN with the same sign bit that carries the half
\* mantissa shifted left by 13, and a quiet half NaN widens to a quiet NaN.
C21_NaNWidening ==
  (op = "ToFloat32" /\ PatNaN(a)) =>
    /\ wide.e = 255 /\ wide.m # 0
    /\ wide.s = a \div 32768
    /\ (wide.m \div 8192) % 512 = a % 512
    /\ (a % 1024 >= 512) => wide.m >= 4194304
    /\ \A n \in HalfNaNs : n # a => ToFloat32(n) # wide

\* C21, amended: half NaN patterns that differ in the sign bit or in the low
\* nine mantissa bits widen to distinct float32 patterns, and two NaNs that
\* differ only in mantissa bit 9 widen to the same one; every widened NaN
\* is a quiet float32 NaN with the same sign bit whose mantissa field is the
\* half mantissa shifted left by 13 with bit 22 set.
C21_NaNWideningAmended ==
  (op = "ToFloat32" /\ PatNaN(a)) =>
    /\ wide.e = 255
    /\ wide.s = a \div 32768
    /\ wide.m = 4194304 + ((a % 512) * 8192)
    \* each unordered pair of NaNs is met once, from its smaller pattern
    /\ \A n \in HalfNaNs :
         n > a => ((ToFloat32(n) = wide)
                     = (n \div 32768 = a \div 32768 /\ n % 512 = a % 512))

C21_Witness ==
  op = "ToFloat32" /\ a = 32001 /\ wide = [s |-> 0, e |-> 255, m |-> 6299648]

\* ------------------------------------------------------------------------
\* Batch conversion
\* ------------------------------------------------------------------------
\* the positions (from 1) of the input whose scalar conversion fails
FailingAt == {i \in 1..Len(batch) : ToFloat16WithMode(batch[i], cmode, rnd).err # "nil"}

\* C22: for a nonempty input, ToSlice16WithMode returns a result slice of
\* the input's length whose element i is the value of the scalar conversion
\* of input i, and an error slice with exactly one entry per failing index,
\* in increasing index order, each with Op "convert[i]" and the scalar
\* error's Code; the error slice is nil when nothing fails; an empty input
\* returns (nil, nil).
C22_BatchErrors ==
  op = "ToSlice16WithMode" =>
    IF Len(batch) = 0 THEN slices.resultNil /\ slices.errorsNil
    ELSE
      /\ ~slices.resultNil
      /\ Len(slices.result) = Len(batch)
      /\ \A i \in 1..Len(batch) :
           slices.result[i] = ToFloat16WithMode(batch[i], cmode, rnd).v
      /\ slices.errorsNil = (FailingAt = {})
      /\ Len(slices.errors) = Cardinality(FailingAt)
      /\ \A i \in FailingAt :
           IndexedErr(i - 1, ToFloat16WithMode(batch[i], cmode, rnd).err)
             \in {slices.errors[k] : k \in 1..Len(slices.errors)}
      /\ \A k \in 1..(Len(slices.errors) - 1) :
           slices.errors[k].Op[2] < slices.errors[k + 1].Op[2]

C22_Witness ==
  /\ op = "ToSlice16WithMode" /\ cmode = "ModeStrict" /\ Len(batch) = 3
  /\ FailingAt = {1, 3}
  /\ slices.errors = <<IndexedErr(0, "ErrOverflow"), IndexedErr(2, "ErrUnderflow")>>

\* ------------------------------------------------------------------------
\* Package configuration
\* ------------------------------------------------------------------------
\* what operator o returns for u and v when the defaults are am and r
UnderDefaults(o, u, v, am, r, ns) ==
  LET res == CASE o = "Add" -> AddWithMode(u, v, am, r)
               [] o = "Sub" -> SubWithMode(u, v, am, r)
               [] o = "Mul" -> MulWithMode(u, v, am, r)
               [] OTHER -> DivWithMode(u, v, am, r, ns)
  IN IF res.err = "panic" THEN res ELSE Ret(res.v, "nil")

\* C23: for fixed operands, Add, Sub, Mul and Div return the same pattern in
\* every reachable package state: the pattern they return is the one they
\* return in the initial state, whatever Configure calls came before.
C23_OperatorsDeterministic ==
  op \in {"Add", "Sub", "Mul", "Div"} =>
    out = UnderDefaults(op, a, b, "ModeIEEEArithmetic", "RoundNearestEven", nanSign)

\* C30: the three mode fields of the Config GetConfig returns equal the
\* package variables DefaultConversionMode, DefaultRoundingMode and
\* DefaultArithmeticMode, and equal the fields the most recent Configure
\* argument had when it was passed, whatever the caller wrote to the Config
\* objects it holds in between.
C30_ConfigConsistent ==
  op = "GetConfig" =>
    /\ heap[got].DefaultConversionMode = DefaultConversionMode
    /\ heap[got].DefaultRoundingMode = DefaultRoundingMode
    /\ heap[got].DefaultArithmeticMode = DefaultArithmeticMode
    /\ heap[got].DefaultConversionMode = applied.DefaultConversionMode
    /\ heap[got].DefaultRoundingMode = applied.DefaultRoundingMode
    /\ heap[got].DefaultArithmeticMode = applied.DefaultArithmeticMode

\* C25: in every configuration state reachable through Configure, for every
\* float32 on which the default conversion mode raises no error, ToFloat16
\* returns the pattern ToFloat16WithMode returns under DefaultConversionMode
\* and DefaultRoundingMode.
C25_ToFloat16UsesDefaults ==
  op = "ToFloat16" =>
    LET r == ToFloat16WithMode(x, DefaultConversionMode, DefaultRoundingMode)
    IN r.err = "nil" => out.v = r.v

\* ------------------------------------------------------------------------
\* Narrowing: carry, flush to zero, sign symmetry
\* ------------------------------------------------------------------------
Narrow32Ops == {"ToFloat16", "ToFloat16WithMode", "FromFloat32"}
Narrow64Ops == {"FromFloat64", "FromFloat64WithMode"}

\* whether rounding an odd mantissa goes up: half is the first dropped bit,
\* rest whether a lower dropped bit is set
RoundsUpOdd(r, sign, half, rest) ==
  CASE r \in {"RoundNearestEven", "RoundNearestAway"} -> half = 1
    [] r = "RoundTowardPositive" -> sign = 0 /\ (half = 1 \/ rest)
    [] r = "RoundTowardNegative" -> sign = 1 /\ (half = 1 \/ rest)
    [] OTHER -> FALSE

\* the call narrows a normal-range input whose ten kept mantissa bits are
\* all ones and whose rounding goes up
CarriesOut ==
  \/ /\ op \in Narrow32Ops
     /\ x.e \in 113..142 /\ x.m \div 8192 = 1023
     /\ RoundsUpOdd(rnd, x.s, Bit(x.m, 12), x.m % 4096 # 0)
  \/ /\ op \in Narrow64Ops
     /\ y.e \in 1009..1038 /\ y.hi \div 65536 = 1023
     /\ RoundsUpOdd(rnd, y.s, Bit(y.hi, 15), y.hi % 32768 # 0 \/ y.lo # 0)

\* the next binade's first value, or the infinity, with the input's sign
CarriedResult ==
  LET sign == IF op \in Narrow32Ops THEN x.s ELSE y.s
      exp16 == IF op \in Narrow32Ops THEN x.e - 112 ELSE y.e - 1008
  IN IF exp16 + 1 >= 31 THEN (sign * 32768) + 31744
     ELSE (sign * 32768) + ((exp16 + 1) * 1024)

\* C26: in every narrowing function, when rounding a normal-range input
\* carries out of the 10-bit mantissa, the result has mantissa 0 and the
\* exponent one greater, or is the signed infinity when the exponent
\* reaches 31.
C26_MantissaCarry ==
  CarriesOut => (out.err # "nil" \/ out.v = CarriedResult)

\* C27: for every finite nonzero input below 2^-25 in magnitude, FromFloat32
\* and FromFloat64 return the zero with the sign of the input.
C27_FlushToZero ==
  /\ (op = "FromFloat32" /\ x.e <= 101 /\ ~(x.e = 0 /\ x.m = 0))
       => out.v = SignedZero(x.s)
  /\ (op = "FromFloat64" /\ y.e <= 997 /\ ~(y.e = 0 /\ y.hi = 0 /\ y.lo = 0))
       => out.v = SignedZero(y.s)

\* what the narrowing function o returns for the inputs f and d
NarrowBy(o, f, d, cm, r) ==
  CASE o = "ToFloat16" -> ToFloat16(f)
    [] o = "ToFloat16WithMode" -> ToFloat16WithMode(f, cm, r).v
    [] o = "FromFloat32" -> FromFloat32(f)
    [] o = "FromFloat64" -> FromFloat64(d)
    [] OTHER -> FromFloat64WithMode(d, cm, r).v

\* C29: for every input that is not a NaN, narrowing the negated input gives
\* the result of narrowing the input with only bit 15 flipped, in ToFloat16,
\* FromFloat32, FromFloat64, and in ToFloat16WithMode and FromFloat64WithMode
\* under ModeIEEE with a rounding mode that does not depend on the sign.
C29_SignSymmetry ==
  ( /\ op \in Narrow32Ops \cup Narrow64Ops
    /\ ~(x.e = 255 /\ x.m # 0)
    /\ ~(y.e = 2047 /\ (y.hi # 0 \/ y.lo # 0))
    /\ cmode = "ModeIEEE"
    /\ rnd \in {"RoundNearestEven", "RoundNearestAway", "RoundTowardZero"} )
  => NarrowBy(op, [x EXCEPT !.s = 1 - x.s], [y EXCEPT !.s = 1 - y.s], cmode, rnd)
       = (out.v + 32768) % 65536

\* ------------------------------------------------------------------------
\* Same-sign addition
\* ------------------------------------------------------------------------
\* C28: for finite nonzero operands with equal sign bits, subnormals
\* included, AddWithMode in ModeIEEEArithmetic with RoundNearestEven returns
\* a nonzero value of the operands' sign that is not smaller in magnitude
\* than either operand; 0x0001 + 0x0001 is 0x0002 and 0x0400 + 0x0200 is
\* 0x0600.
C28_SameSignAddition ==
  ( /\ op = "AddWithMode"
    /\ amode = "ModeIEEEArithmetic" /\ rnd = "RoundNearestEven"
    /\ PatFiniteNonzero(a) /\ PatFiniteNonzero(b)
    /\ PatNeg(a) = PatNeg(b) )
  => /\ out.err = "nil"
     /\ ~PatZero(out.v) /\ ~PatNaN(out.v)
     /\ PatNeg(out.v) = PatNeg(a)
     /\ out.v % 32768 >= a % 32768
     /\ out.v % 32768 >= b % 32768
     /\ (a = 1 /\ b = 1) => out.v = 2
     /\ (a = 1024 /\ b = 512) => out.v = 1536

\* ------------------------------------------------------------------------
\* Data races on the package variables
\* ------------------------------------------------------------------------
\* the package variable goroutine p writes in its next step, or "none"
Writes(p) ==
  IF pc[p][1] = "Configure" /\ pc[p][2] \notin {"Lock", "Unlock"} THEN pc[p][2]
  ELSE "none"

\* the package variable goroutine p reads in its next step, or "none"
Reads(p) ==
  IF pc[p][1] = "GetConfig" /\ pc[p][2] \notin {"RLock", "RUnlock"} THEN "config"
  ELSE IF pc[p][1] \in Operators THEN pc[p][2]
  ELSE "none"

\* goroutine p holds configMutex, for writing or for reading
Holds(p) == configMutex.writer = p \/ p \in configMutex.readers

\* C24: in every interleaving of Configure, GetConfig, Add, Sub, Mul and
\* Div, whenever one goroutine is about to write a package default-mode
\* variable and another is about to read or write the same variable, both
\* hold configMutex.
C24_RaceFree ==
  \A p \in Procs, q \in Procs :
    (p # q /\ Writes(p) # "none" /\ (Reads(q) = Writes(p) \/ Writes(q) = Writes(p)))
      => (Holds(p) /\ Holds(q))

====
